---- MODULE Spec2Model ----
(***************************************************************************)
(* A model of velox/dwio/common/SelectiveStructColumnReader.cpp: the       *)
(* selective struct column reader (read, skip, next, getValues and the     *)
(* result-reuse helpers).                                                  *)
(*                                                                         *)
(* The reader tree is  root{ k: constant, a: leaf, b: struct{ c: leaf,     *)
(* d: missing from the file } }.  The root is driven through next(), the   *)
(* nested struct b through its parent and through the column loader.       *)
(***************************************************************************)
EXTENDS Integers, Sequences, FiniteSets, TLC

VARIABLES
  cfg,      \* the scan specification (fixed after construction)
  rd,       \* reader name -> the reader's fields
  file,     \* the content of the file in the current read window
  batch,    \* the caller's result handle (a tree of vectors)
  detached, \* lazy vectors that left the result while another holder kept them
  log,      \* what the last operation did, in order
  last,     \* the last operation: its name, arguments and outcome
  rowGroups, \* the row groups a FilterRowGroupsResult marks as skipped
  sink,     \* DataSink.cpp: the factories, the sink and the file it writes
  agg       \* MapUnionSumAggregate.cpp: the groups and their accumulators

vars == <<cfg, rd, file, batch, detached, log, last, rowGroups, sink, agg>>

\* The struct reader's part of the state, and the rest.
readerVars == <<cfg, rd, file, batch, detached, log, last>>

otherVars == <<rowGroups, sink, agg>>

\* ------------------------------------------------------------------ bounds
MaxBatch == 2
MaxOffset == 2
MaxShared == 1
MaxSkips == 1
MaxRowGroups == 3
MaxDenseBatch == 3
MaxDenseOffset == 4
MaxFactories == 3
MaxBuffers == 2
MaxBufferSize == 2
MaxWrites == 2
MaxInputs == 2
MaxRows == 2

\* ---------------------------------------------------------------- helpers
Last(s) == s[Len(s)]

Range(s) == {s[i] : i \in 1..Len(s)}

AscSeq(S) ==
  [i \in 1..Cardinality(S) |-> CHOOSE x \in S : Cardinality({y \in S : y < x}) = i - 1]

IsAscending(s) == \A i \in 1..(Len(s) - 1) : s[i] < s[i + 1]

Ev(e, r, c, off, rows) == [e |-> e, r |-> r, c |-> c, off |-> off, rows |-> rows]

Emit(w, ev) == [w EXCEPT !.log = Append(@, ev)]

Fail(w, what) == IF w.err = "" THEN [w EXCEPT !.err = what] ELSE w

\* ------------------------------------------------------ the reader tree
Readers == {"root", "a", "b", "c"}

children_(r) ==
  IF r = "root" THEN <<"a", "b">> ELSE IF r = "b" THEN <<"c">> ELSE <<>>

IsStruct(r) == r \in {"root", "b"}

isRoot_(r) == r = "root"

isTopLevel(r) == r \in {"a", "b"}

\* Number of fields the file has for the struct.
fileTypeSize(r) == IF r = "root" THEN 3 ELSE 1

kNoChannel == -1

kConstantChildSpecSubscript == -1

\* The struct node's own filter kind ("none" when it has no filter).
filterKind(c, r) == IF r = "b" THEN c.bKind ELSE "none"

\* scanSpec->hasFilter(): the node or one of its descendants has a filter.
hasFilter(c, r) ==
  CASE r = "a" -> c.aMode \in {"filter", "filterOnly"}
    [] r = "c" -> c.cFilter
    [] r = "b" -> c.bKind # "none" \/ c.cFilter
    [] OTHER -> c.aMode \in {"filter", "filterOnly"} \/ c.bKind # "none" \/ c.cFilter

ChildSpec(name, isConstant, subscript, channel, projectOut, filt, extract) ==
  [name |-> name, isConstant |-> isConstant, subscript |-> subscript,
   channel |-> channel, projectOut |-> projectOut, hasFilter |-> filt,
   extractValues |-> extract]

\* scanSpec_->children() of a struct reader, in scan-spec order.
childSpecs(c, r) ==
  IF r = "root"
  THEN << ChildSpec("k", TRUE, kConstantChildSpecSubscript, 0, TRUE, FALSE, FALSE),
          ChildSpec("a", FALSE, 1, 1, c.aMode # "filterOnly", hasFilter(c, "a"),
                    c.aMode = "extract"),
          ChildSpec("b", FALSE, 2, 2, TRUE, hasFilter(c, "b"), c.bMode = "extract") >>
  ELSE IF r = "b"
  THEN << ChildSpec("c", FALSE, 1, 0, TRUE, hasFilter(c, "c"), TRUE),
          ChildSpec("d", FALSE, kConstantChildSpecSubscript, 1, TRUE, FALSE, FALSE) >>
  ELSE <<>>

isChildConstant(r, childSpec) ==
  \/ childSpec.isConstant
  \/ /\ ~isRoot_(r)
     /\ childSpec.channel # kNoChannel
     /\ childSpec.channel >= fileTypeSize(r)

\* ------------------------------------------------- leaf and base readers
NullV == <<"null", 0>>

UnreadV == <<"unread", 0>>

\* The value the file holds for a leaf at an absolute row position.
Val(r, pos) == <<r, pos>>

NoMutation == [present |-> FALSE, hasDeleted |-> FALSE, deletedRows |-> {}]

InitReader ==
  [readOffset |-> 0, numReads |-> 0,
   hasNulls |-> FALSE, nulls |-> {},
   inputRows |-> <<>>, outputRows |-> <<>>,
   lazyVectorReadOffset |-> 0,
   rows_ |-> <<>>, hasMutation |-> FALSE, mutation |-> NoMutation,
   vals |-> <<>>]

\* scanSpec_->newRead(): a read sequence number no earlier read had.
newRead(w, r) == [w EXCEPT !.rd[r].numReads = @ + 1]

\* SelectiveColumnReader::prepareRead: the nulls of the read window (the
\* format's own nulls plus the incoming ones), the rows, an empty output.
prepareRead(w, r, offset, rows, hasIn, inNulls) ==
  LET own == IF r = "b" THEN {x \in w.file.bNulls : x <= Last(rows)} ELSE {}
      present == hasIn \/ r = "b"
  IN [w EXCEPT !.rd[r].hasNulls = present,
               !.rd[r].nulls = own \cup (IF hasIn THEN inNulls ELSE {}),
               !.rd[r].inputRows = rows,
               !.rd[r].outputRows = <<>>]

\* SelectiveColumnReader::outputRows().
outputRows(w, r) ==
  IF hasFilter(w.cfg, r) \/ w.rd[r].hasMutation
  THEN w.rd[r].outputRows ELSE w.rd[r].inputRows

setOutputRows(w, r, rows) == [w EXCEPT !.rd[r].outputRows = rows]

\* SelectiveColumnReader::filterNulls: the rows whose null bit matches.
filterNulls(w, r, rows, isNull) ==
  LET me == w.rd[r]
      keep(x) == IF isNull THEN me.hasNulls /\ x \in me.nulls
                 ELSE ~(me.hasNulls /\ x \in me.nulls)
  IN [w EXCEPT !.rd[r].outputRows = SelectSeq(rows, keep)]

\* A leaf reader's read: decodes the rows, applies its filter.
readLeaf(w, r, offset, rows, hasIn, inNulls, pass) ==
  LET isNull(x) == hasIn /\ x \in inNulls
      keep(x) == ~isNull(x) /\ x \in pass
      w1 == Emit(w, Ev("read", r, "", offset, rows))
  IN [w1 EXCEPT !.rd[r].readOffset = offset + Last(rows) + 1,
                !.rd[r].inputRows = rows,
                !.rd[r].hasNulls = hasIn,
                !.rd[r].nulls = IF hasIn THEN inNulls ELSE {},
                !.rd[r].outputRows =
                   IF hasFilter(w.cfg, r) THEN SelectSeq(rows, keep) ELSE <<>>,
                !.rd[r].vals = [x \in Range(rows) |->
                                  IF isNull(x) THEN NullV ELSE Val(r, offset + x)]]

advanceFieldReader(w, r, child, offset) == Emit(w, Ev("advance", r, child, offset, <<>>))

addParentNulls(w, r, child, offset, rows) ==
  Emit(w, Ev("addParentNulls", r, child, offset, rows))

\* bits::forEachUnsetBit(bits, begin, end, f): the indices f is called with.
forEachUnsetBit(bits, begin, end) == AscSeq({i \in begin..(end - 1) : i \notin bits})

\* --------------------------------------------------------------- read
RECURSIVE read(_, _, _, _, _, _, _)
RECURSIVE readChildren(_, _, _, _, _, _, _)

\* readOffsetAfter that stops at the last row instead of past it.
readOffsetAfterLast(offset, rows) == offset + Last(rows)

\* readOffset_ = offset + rows.back() + 1
readOffsetAfter(offset, rows) == offset + Last(rows) + 1

\* recordParentNullsInChildren without the format's parentNullsInLeaves() test.
recordParentNullsAlways(w, r, offset, rows) ==
  LET specs == childSpecs(w.cfg, r)
      F[i \in 0..Len(specs)] ==
        IF i = 0 THEN w
        ELSE IF isChildConstant(r, specs[i]) THEN F[i - 1]
        ELSE addParentNulls(F[i - 1], r, children_(r)[specs[i].subscript], offset, rows)
  IN F[Len(specs)]

\* recordParentNullsInChildren over the struct's output rows instead of 'rows'.
recordParentNullsNarrowed(w, r, offset, rows) ==
  LET specs == childSpecs(w.cfg, r)
      F[i \in 0..Len(specs)] ==
        IF i = 0 THEN w
        ELSE IF isChildConstant(r, specs[i]) THEN F[i - 1]
        ELSE addParentNulls(F[i - 1], r, children_(r)[specs[i].subscript], offset,
                            w.rd[r].outputRows)
  IN IF w.cfg.parentNullsInLeaves THEN w ELSE F[Len(specs)]

recordParentNullsInChildren(w, r, offset, rows) ==
  LET specs == childSpecs(w.cfg, r)
      F[i \in 0..Len(specs)] ==
        IF i = 0 THEN w
        ELSE IF isChildConstant(r, specs[i]) THEN F[i - 1]
        ELSE addParentNulls(F[i - 1], r, children_(r)[specs[i].subscript], offset, rows)
  IN IF w.cfg.parentNullsInLeaves THEN w ELSE F[Len(specs)]

readReader(w, r, offset, rows, hasIn, inNulls, data) ==
  IF IsStruct(r)
  THEN read(w, r, offset, rows, hasIn, inNulls, data)
  ELSE readLeaf(w, r, offset, rows, hasIn, inNulls, data.pass[r])

\* deferred that does not look at extractValues.
deferredIgnoringExtract(reader, childSpec) ==
  isTopLevel(reader) /\ childSpec.projectOut /\ ~childSpec.hasFilter

\* Lines 140-141: read leaves the child to a LazyVector.
deferred(reader, childSpec) ==
  /\ isTopLevel(reader)
  /\ childSpec.projectOut
  /\ ~childSpec.hasFilter
  /\ ~childSpec.extractValues

\* The child loop without the break at lines 159-161: after a filter that
\* left no row it goes on to the next child with the rows it had.
readChildrenNoBreak(w, r, i, offset, activeRows, data, specs) ==
  IF i > Len(specs) \/ w.err # "" THEN [w |-> w, activeRows |-> activeRows]
  ELSE
    LET childSpec == specs[i]
        reader == children_(r)[childSpec.subscript]
        Narrowed(w2, narrowed) ==
          readChildren(w2, r, i + 1, offset,
                       IF narrowed = <<>> THEN activeRows ELSE narrowed, data, specs)
        AfterRead(w2) ==
          IF childSpec.hasFilter
          THEN Narrowed(Emit(w2, Ev("active", r, reader, offset, outputRows(w2, reader))),
                        outputRows(w2, reader))
          ELSE readChildren(w2, r, i + 1, offset, activeRows, data, specs)
    IN IF isChildConstant(r, childSpec)
       THEN readChildren(w, r, i + 1, offset, activeRows, data, specs)
       ELSE IF deferred(reader, childSpec)
       THEN readChildren(w, r, i + 1, offset, activeRows, data, specs)
       ELSE AfterRead(readReader(advanceFieldReader(w, r, reader, offset), reader, offset,
                                 activeRows, w.rd[r].hasNulls, w.rd[r].nulls, data))

\* The child loop of read: returns the world and the active rows.
readChildren(w, r, i, offset, activeRows, data, specs) ==
  IF i > Len(specs) \/ w.err # "" THEN [w |-> w, activeRows |-> activeRows]
  ELSE
    LET childSpec == specs[i]
        reader == children_(r)[childSpec.subscript]
        Narrowed(w2, narrowed) ==
          IF narrowed = <<>>
          THEN [w |-> w2, activeRows |-> narrowed]
          ELSE readChildren(w2, r, i + 1, offset, narrowed, data, specs)
        AfterRead(w2) ==
          IF childSpec.hasFilter
          THEN Narrowed(Emit(w2, Ev("active", r, reader, offset, outputRows(w2, reader))),
                        outputRows(w2, reader))
          ELSE readChildren(w2, r, i + 1, offset, activeRows, data, specs)
    IN IF isChildConstant(r, childSpec)
       THEN readChildren(w, r, i + 1, offset, activeRows, data, specs)
       ELSE IF deferred(reader, childSpec)
       THEN readChildren(w, r, i + 1, offset, activeRows, data, specs)
       ELSE AfterRead(readReader(advanceFieldReader(w, r, reader, offset), reader, offset,
                                 activeRows, w.rd[r].hasNulls, w.rd[r].nulls, data))

\* setReadOffsets that leaves lazyVectorReadOffset_ as it was.
setReadOffsetOnly(w, r, offset, rows) ==
  [w EXCEPT !.rd[r].readOffset = readOffsetAfter(offset, rows)]

\* lazyVectorReadOffset_ = offset; readOffset_ = offset + rows.back() + 1
setReadOffsets(w, r, offset, rows) ==
  [w EXCEPT !.rd[r].lazyVectorReadOffset = offset,
            !.rd[r].readOffset = readOffsetAfter(offset, rows)]

\* Lines 131-175: the child loop and what follows it.
readBody(w, r, offset, rows, activeRows, data) ==
  LET Filtered(w1, active) ==
        IF hasFilter(w.cfg, r) THEN setOutputRows(w1, r, active) ELSE w1
      AfterLoop(lp) ==
        IF lp.w.err # "" THEN lp.w
        ELSE setReadOffsets(Filtered(recordParentNullsInChildren(lp.w, r, offset, rows),
                                     lp.activeRows), r, offset, rows)
  IN IF children_(r) = <<>> THEN Fail(w, "check: no children")
     ELSE AfterLoop(readChildren(w, r, 1, offset, activeRows, data, childSpecs(w.cfg, r)))

\* readFiltered without the check of the filter's kind.
readFilteredAnyKind(w, r, offset, rows, activeRows, data) ==
  LET kind == filterKind(w.cfg, r)
      AfterFilter(w2, out) ==
        IF out = <<>>
        THEN recordParentNullsInChildren(w2, r, offset, rows)
        ELSE readBody(w2, r, offset, rows, out, data)
      Logged(w1) ==
        AfterFilter(Emit(w1, Ev("active", r, "filter", offset, w1.rd[r].outputRows)),
                    w1.rd[r].outputRows)
  IN IF kind = "none" THEN readBody(w, r, offset, rows, activeRows, data)
     ELSE Logged(filterNulls(w, r, activeRows, kind = "isNull"))

\* Lines 114-129: the struct node's own null / not-null filter.
readFiltered(w, r, offset, rows, activeRows, data) ==
  LET kind == filterKind(w.cfg, r)
      AfterFilter(w2, out) ==
        IF out = <<>>
        THEN recordParentNullsInChildren(w2, r, offset, rows)
        ELSE readBody(w2, r, offset, rows, out, data)
      Logged(w1) ==
        AfterFilter(Emit(w1, Ev("active", r, "filter", offset, w1.rd[r].outputRows)),
                    w1.rd[r].outputRows)
  IN IF kind = "none" THEN readBody(w, r, offset, rows, activeRows, data)
     ELSE IF kind \notin {"isNull", "isNotNull"} THEN Fail(w, "check: filter kind")
     ELSE Logged(filterNulls(w, r, activeRows, kind = "isNull"))

\* mutationRows with the range ending one past the last row.
mutationRowsPastEnd(deletedRows, rows) == forEachUnsetBit(deletedRows, 0, Last(rows) + 2)

\* mutationRows with the range starting after the first row.
mutationRowsFromSecond(deletedRows, rows) == forEachUnsetBit(deletedRows, 1, Last(rows) + 1)

\* The row set the mutation leaves: every index in range not marked deleted.
mutationRows(deletedRows, rows) == forEachUnsetBit(deletedRows, 0, Last(rows) + 1)

read(w, r, offset, rows, hasIn, inNulls, data) ==
  LET AfterMutation(w2, out) ==
        IF out = <<>>
        THEN [w2 EXCEPT !.rd[r].readOffset = readOffsetAfter(offset, rows)]
        ELSE readFiltered(w2, r, offset, rows, out, data)
      Mutation(w1, out) ==
        AfterMutation(Emit(setOutputRows(w1, r, out),
                           Ev("active", r, "mutation", offset, out)), out)
      Prepared(w1) ==
        IF w1.rd[r].hasMutation
        THEN IF w1.rd[r].hasNulls
             THEN Fail(w1, "dcheck: only top level can have mutation")
             ELSE IF Last(rows) # Len(rows) - 1 THEN Fail(w1, "dcheck: dense row set")
             ELSE Mutation(w1, w1.rd[r].outputRows
                                 \o mutationRows(w1.rd[r].mutation.deletedRows, rows))
        ELSE readFiltered(w1, r, offset, rows, rows, data)
  IN IF w.err # "" THEN w
     ELSE Prepared(prepareRead(newRead(Emit(w, Ev("read", r, "", offset, rows)), r),
                               r, offset, rows, hasIn, inNulls))

\* --------------------------------------------------------------- skip
RECURSIVE setReadOffsetRecursive(_, _, _)
RECURSIVE skip(_, _, _, _)

setReadOffsetRecursive(w, r, pos) ==
  LET kids == children_(r)
      F[i \in 0..Len(kids)] ==
        IF i = 0 THEN [w EXCEPT !.rd[r].readOffset = pos]
        ELSE setReadOffsetRecursive(F[i - 1], kids[i], pos)
  IN F[Len(kids)]

\* A leaf reader's skip: advances the value stream only.
skipLeaf(w, r, numValues) == Emit(w, Ev("skip", r, "", numValues, <<>>))

\* formatData_->skipNulls(numValues): the non-null count, given by the file.
skipNulls(nonNulls, r, numValues) ==
  IF nonNulls[r] <= numValues THEN nonNulls[r] ELSE numValues

\* skip that moves the children's readOffset by the non-null count.
skipByValueCount(w, r, numValues, nonNulls) ==
  IF ~IsStruct(r) THEN skipLeaf(w, r, numValues)
  ELSE
    LET numNonNulls == skipNulls(nonNulls, r, numValues)
        kids == children_(r)
        Advance(w1, child) ==
          setReadOffsetRecursive(w1, child, w1.rd[child].readOffset + numNonNulls)
        F[i \in 0..Len(kids)] ==
          IF i = 0
          THEN Emit(Emit(w, Ev("skip", r, "", numValues, <<>>)),
                    Ev("skipNulls", r, "", numNonNulls, <<>>))
          ELSE Advance(skip(F[i - 1], kids[i], numNonNulls, nonNulls), kids[i])
    IN Emit(F[Len(kids)], Ev("return", r, "skip", numValues, <<>>))

\* skip that makes the children skip numValues values.
skipAllValues(w, r, numValues, nonNulls) ==
  IF ~IsStruct(r) THEN skipLeaf(w, r, numValues)
  ELSE
    LET numNonNulls == skipNulls(nonNulls, r, numValues)
        kids == children_(r)
        Advance(w1, child) ==
          setReadOffsetRecursive(w1, child, w1.rd[child].readOffset + numValues)
        F[i \in 0..Len(kids)] ==
          IF i = 0
          THEN Emit(Emit(w, Ev("skip", r, "", numValues, <<>>)),
                    Ev("skipNulls", r, "", numNonNulls, <<>>))
          ELSE Advance(skip(F[i - 1], kids[i], numValues, nonNulls), kids[i])
    IN Emit(F[Len(kids)], Ev("return", r, "skip", numValues, <<>>))

skip(w, r, numValues, nonNulls) ==
  IF ~IsStruct(r) THEN skipLeaf(w, r, numValues)
  ELSE
    LET numNonNulls == skipNulls(nonNulls, r, numValues)
        kids == children_(r)
        Advance(w1, child) ==
          setReadOffsetRecursive(w1, child, w1.rd[child].readOffset + numValues)
        F[i \in 0..Len(kids)] ==
          IF i = 0
          THEN Emit(Emit(w, Ev("skip", r, "", numValues, <<>>)),
                    Ev("skipNulls", r, "", numNonNulls, <<>>))
          ELSE Advance(skip(F[i - 1], kids[i], numNonNulls, nonNulls), kids[i])
    IN Emit(F[Len(kids)], Ev("return", r, "skip", numValues, <<>>))

\* ---------------------------------------------------- filterRowGroups
RECURSIVE filterRowGroups(_, _, _, _)

\* scanSpec_->filter() is set: the node has a filter of its own.
hasOwnFilter(c, r) ==
  CASE r = "a" -> c.aMode \in {"filter", "filterOnly"}
    [] r = "b" -> c.bKind # "none"
    [] r = "c" -> c.cFilter
    [] OTHER -> FALSE

\* SelectiveColumnReader::filterRowGroups: the format marks the row groups
\* whose statistics fail the node's own filter; g = [w, res].
filterRowGroupsBase(g, r, stats) ==
  [w |-> Emit(g.w, Ev("filterRowGroups", r, "", 0, AscSeq(g.res))),
   res |-> IF hasOwnFilter(g.w.cfg, r) THEN g.res \cup stats[r] ELSE g.res]

FilterReturned(g, r) ==
  [w |-> Emit(g.w, Ev("return", r, "filterRowGroups", 0, AscSeq(g.res))), res |-> g.res]

\* filterRowGroups that hands every child a result of its own.
filterRowGroupsFreshPerChild(w, r, result, stats) ==
  IF ~IsStruct(r)
  THEN FilterReturned(filterRowGroupsBase([w |-> w, res |-> result], r, stats), r)
  ELSE
    LET kids == children_(r)
        F[i \in 0..Len(kids)] ==
          IF i = 0 THEN filterRowGroupsBase([w |-> w, res |-> result], r, stats)
          ELSE filterRowGroups(F[i - 1].w, kids[i], {}, stats)
    IN FilterReturned(F[Len(kids)], r)

filterRowGroups(w, r, result, stats) ==
  IF ~IsStruct(r)
  THEN FilterReturned(filterRowGroupsBase([w |-> w, res |-> result], r, stats), r)
  ELSE
    LET kids == children_(r)
        F[i \in 0..Len(kids)] ==
          IF i = 0 THEN filterRowGroupsBase([w |-> w, res |-> result], r, stats)
          ELSE filterRowGroups(F[i - 1].w, kids[i], F[i - 1].res, stats)
    IN FilterReturned(F[Len(kids)], r)

\* ------------------------------------------------------------ vectors
NoVec == [enc |-> "NULL", isRow |-> FALSE, shared |-> FALSE, size |-> 0]

RowVector(size, children) ==
  [enc |-> "ROW", isRow |-> TRUE, shared |-> FALSE, size |-> size,
   nulls |-> {}, children |-> children]

ConstantVector(size, value) ==
  [enc |-> "CONSTANT", isRow |-> FALSE, shared |-> FALSE, size |-> size, value |-> value]

FlatVector(vals) ==
  [enc |-> "FLAT", isRow |-> FALSE, shared |-> FALSE, size |-> Len(vals), vals |-> vals]

LazyVector(size, reader, epoch) ==
  [enc |-> "LAZY", isRow |-> IsStruct(reader), shared |-> FALSE, size |-> size,
   reader |-> reader, epoch |-> epoch, loaded |-> FALSE, inner |-> NoVec]

DictionaryVector(inner) ==
  [enc |-> "DICTIONARY", isRow |-> inner.isRow, shared |-> FALSE, size |-> inner.size,
   inner |-> inner]

\* The constant value the scan spec sets for field k.
constantValue == <<"K", 0>>

\* The lazy vectors another holder keeps when 'old' leaves the result.
Kept(old) ==
  IF old.enc = "LAZY"
  THEN IF old.shared /\ ~old.loaded /\ old.reader \in Readers
       THEN {[reader |-> old.reader, epoch |-> old.epoch]} ELSE {}
  ELSE IF old.enc = "ROW"
  THEN {[reader |-> old.children[i].reader, epoch |-> old.children[i].epoch] :
          i \in {j \in 1..Len(old.children) :
                   /\ old.children[j].enc = "LAZY"
                   /\ ~old.children[j].loaded
                   /\ (old.shared \/ old.children[j].shared)}}
  ELSE {}

Drop(w, old) == [w EXCEPT !.detached = @ \cup Kept(old)]

\* An in-place change of a vector; the flag tells whether it was shared.
Mutated(w, r, slot, v) == Emit(w, Ev("mutate", r, slot, IF v.shared THEN 1 ELSE 0, <<>>))

Allocated(w, r, slot) == Emit(w, Ev("alloc", r, slot, 0, <<>>))

\* ------------------------------------------------- result-reuse helpers
RECURSIVE fillRowVectorChildren(_)
RECURSIVE tryReuseResult(_)
RECURSIVE getValues(_, _, _, _, _)
RECURSIVE layersTried(_)
RECURSIVE getValuesFields(_, _, _, _, _)

\* Whether the field at a channel of the struct's row type is a row.
childTypeIsRow(r, channel) == r = "root" /\ channel = 2

rowTypeSize(r) == IF r = "root" THEN 3 ELSE 2

fillRowVectorChildren(r) ==
  [i \in 1..rowTypeSize(r) |->
     IF childTypeIsRow(r, i - 1) THEN RowVector(0, fillRowVectorChildren("b")) ELSE NoVec]

\* The number of vectors tryReuseResult looks at, from the handle inwards.
layersTried(result) ==
  IF result.shared THEN 1
  ELSE CASE result.enc = "LAZY" ->
              IF ~result.loaded THEN 1 ELSE 1 + layersTried(result.inner)
         [] result.enc = "DICTIONARY" -> 1 + layersTried(result.inner)
         [] OTHER -> 1

\* tryReuseResult that asks unique() of the outer handle only.
tryReuseResultOuterOnly(result) ==
  IF result.shared THEN NoVec
  ELSE CASE result.enc = "ROW" -> result
         [] result.enc = "LAZY" ->
              IF ~result.loaded THEN NoVec
              ELSE tryReuseResult([result.inner EXCEPT !.shared = FALSE])
         [] result.enc = "DICTIONARY" ->
              tryReuseResult([result.inner EXCEPT !.shared = FALSE])
         [] OTHER -> NoVec

\* Returns the row vector to reuse, or NoVec (nullptr).
tryReuseResult(result) ==
  IF result.shared THEN NoVec
  ELSE CASE result.enc = "ROW" -> result
         [] result.enc = "LAZY" ->
              IF ~result.loaded THEN NoVec ELSE tryReuseResult(result.inner)
         [] result.enc = "DICTIONARY" -> tryReuseResult(result.inner)
         [] OTHER -> NoVec

setConstantField(w, r, slot, constant, size, field) ==
  IF /\ field # NoVec
     /\ field.enc = "CONSTANT"
     /\ ~field.shared
     /\ field.size > 0
     /\ field.value = constant
  THEN [w |-> Mutated(w, r, slot, field), v |-> [field EXCEPT !.size = size]]
  ELSE [w |-> Allocated(Drop(w, field), r, slot), v |-> ConstantVector(size, constant)]

setNullField(w, r, slot, size, field) ==
  IF /\ field # NoVec
     /\ field.enc = "CONSTANT"
     /\ ~field.shared
     /\ field.size > 0
     /\ field.value = NullV
  THEN [w |-> Mutated(w, r, slot, field), v |-> [field EXCEPT !.size = size]]
  ELSE IF field = NoVec
  THEN [w |-> Fail(w, "crash: null field dereferenced"), v |-> field]
  ELSE [w |-> Allocated(Drop(w, field), r, slot), v |-> ConstantVector(size, NullV)]

\* A leaf reader's getValues: a new vector of the values read for 'rows'.
getValuesLeaf(w, r, slot, rows, field) ==
  LET have == w.rd[r].vals
  IN [w |-> Allocated(Drop(Emit(w, Ev("getValues", r, slot, 0, rows)), field), r, slot),
      v |-> FlatVector([i \in 1..Len(rows) |->
                          IF rows[i] \in DOMAIN have THEN have[rows[i]] ELSE UnreadV])]

\* ---------------------------------------------------------- getValues
\* lazyField with a loader bound to the epoch before the current read.
lazyFieldPreviousEpoch(w, r, slot, reader, size, field) ==
  IF field # NoVec /\ field.enc = "LAZY" /\ ~field.shared
  THEN [w |-> Mutated(w, r, slot, field),
        v |-> [field EXCEPT !.epoch = w.rd[r].numReads - 1, !.size = size,
                            !.loaded = FALSE, !.inner = NoVec]]
  ELSE [w |-> Allocated(Drop(w, field), r, slot),
        v |-> LazyVector(size, reader, w.rd[r].numReads - 1)]

\* lazyField that makes a new LazyVector whatever the field holds.
lazyFieldAlwaysNew(w, r, slot, reader, size, field) ==
  [w |-> Allocated(Drop(w, field), r, slot),
   v |-> LazyVector(size, reader, w.rd[r].numReads)]

\* Binds or resets the lazy vector of a field (lines 353-371).
lazyField(w, r, slot, reader, size, field) ==
  IF field # NoVec /\ field.enc = "LAZY" /\ ~field.shared
  THEN [w |-> Mutated(w, r, slot, field),
        v |-> [field EXCEPT !.epoch = w.rd[r].numReads, !.size = size,
                            !.loaded = FALSE, !.inner = NoVec]]
  ELSE [w |-> Allocated(Drop(w, field), r, slot),
        v |-> LazyVector(size, reader, w.rd[r].numReads)]

\* syncOutputRows that never recomputes the output rows.
syncOutputRowsNever(w, r, rows, lazyPrepared) ==
  IF lazyPrepared THEN w
  ELSE Emit(w, Ev("lazyPrepare", r, "", Len(w.rd[r].outputRows), rows))

\* Lines 354-359: before the first LazyVector of a call, outputRows_ is set
\* to 'rows' if the two differ in size.
syncOutputRows(w, r, rows, lazyPrepared) ==
  IF lazyPrepared THEN w
  ELSE IF Len(rows) # Len(w.rd[r].outputRows)
  THEN Emit(setOutputRows(Emit(w, Ev("lazyPrepare", r, "", Len(w.rd[r].outputRows), rows)),
                          r, rows),
            Ev("setOutputRows", r, "", 0, rows))
  ELSE Emit(w, Ev("lazyPrepare", r, "", Len(w.rd[r].outputRows), rows))

\* Lines 348-349: getValues takes the values from the child's getValues.
eager(reader, childSpec) ==
  childSpec.extractValues \/ childSpec.hasFilter \/ ~isTopLevel(reader)

\* The loop over the child specs (lines 330-372); g = [w, res, lazyPrepared].
getValuesFields(g, r, rows, i, specs) ==
  IF i > Len(specs) \/ g.w.err # "" THEN g
  ELSE
    LET childSpec == specs[i]
        ch == childSpec.channel + 1
        childResult == g.res.children[ch]
        index == childSpec.subscript
        Put(f, lp) == [w |-> f.w, res |-> [g.res EXCEPT !.children[ch] = f.v],
                       lazyPrepared |-> lp]
        Go(g1) == getValuesFields(g1, r, rows, i + 1, specs)
        AsField(f) == [w |-> f.w, v |-> f.res]
    IN IF ~childSpec.projectOut THEN Go(g)
       ELSE IF childSpec.isConstant
       THEN Go(Put(setConstantField(g.w, r, childSpec.name, constantValue,
                                    Len(rows), childResult), g.lazyPrepared))
       ELSE IF index = kConstantChildSpecSubscript
       THEN Go(Put(setNullField(g.w, r, childSpec.name, Len(rows), childResult),
                   g.lazyPrepared))
       ELSE IF eager(children_(r)[index], childSpec)
       THEN IF IsStruct(children_(r)[index])
            THEN Go(Put(AsField(getValues(g.w, children_(r)[index], childSpec.name,
                                          rows, childResult)), g.lazyPrepared))
            ELSE Go(Put(getValuesLeaf(g.w, children_(r)[index], childSpec.name,
                                      rows, childResult), g.lazyPrepared))
       ELSE
         Go(Put(lazyField(syncOutputRows(g.w, r, rows, g.lazyPrepared), r, childSpec.name,
                          children_(r)[index], Len(rows), childResult), TRUE))

\* resultNulls that reads the reader's null bit at i instead of rows[i].
resultNullsByPosition(me, rows) ==
  IF me.hasNulls THEN {i \in 0..(Len(rows) - 1) : i \in me.nulls} ELSE {}

\* The null bits of the output rows (lines 321-329).
resultNulls(me, rows) ==
  IF me.hasNulls THEN {i \in 0..(Len(rows) - 1) : rows[i + 1] \in me.nulls} ELSE {}

\* resizeResult that only ever grows the container.
resizeResultGrowOnly(row0, rows) ==
  IF Len(rows) > row0.size THEN [row0 EXCEPT !.size = Len(rows)] ELSE row0

\* resultRow->resize(rows.size())
resizeResult(row0, rows) == [row0 EXCEPT !.size = Len(rows)]

getValues(w, r, slot, rows, result) ==
  LET Done(g) == [w |-> g.w, res |-> g.res]
      Fields(w1, row1) ==
        IF rows = <<>> THEN [w |-> w1, res |-> row1]
        ELSE Done(getValuesFields(
                    [w |-> w1, lazyPrepared |-> FALSE,
                     res |-> [row1 EXCEPT !.nulls = resultNulls(w.rd[r], rows)]],
                    r, rows, 1, childSpecs(w.cfg, r)))
      Sized(w1, row0) == Fields(w1, resizeResult(row0, rows))
      Reuse(w0, reused) ==
        IF reused # NoVec THEN Sized(Mutated(w0, r, slot, reused), reused)
        ELSE Sized(Allocated(Drop(w0, result), r, slot),
                   RowVector(0, fillRowVectorChildren(r)))
  IN IF w.err # "" THEN [w |-> w, res |-> result]
     ELSE IF children_(r) = <<>> THEN [w |-> Fail(w, "check: no children"), res |-> result]
     ELSE IF result = NoVec THEN [w |-> Fail(w, "check: null result"), res |-> result]
     ELSE IF ~result.isRow
     THEN [w |-> Fail(w, "check: result not of type ROW"), res |-> result]
     ELSE Reuse(Emit(Emit(w, Ev("getValues", r, slot, 0, rows)),
                     Ev("tryReuseResult", r, slot, layersTried(result), <<>>)),
                tryReuseResult(result))

\* --------------------------------------------------------------- next
\* rows_.resize(numValues) and the iota over the new tail (lines 80-84).
\* denseRows that keeps the longer buffer when numValues is smaller.
denseRowsGrowOnly(rows_, numValues) ==
  IF numValues > Len(rows_)
  THEN rows_ \o [i \in 1..(numValues - Len(rows_)) |-> Len(rows_) + i - 1]
  ELSE rows_

denseRows(rows_, numValues) ==
  IF numValues > Len(rows_)
  THEN rows_ \o [i \in 1..(numValues - Len(rows_)) |-> Len(rows_) + i - 1]
  ELSE SubSeq(rows_, 1, numValues)

\* children_.empty(): the scan selects no column a reader was made for.
noChildReaders(c) == "specs" \in DOMAIN c

\* childSpec->constantValue()
constantOf(childSpec) == IF childSpec.name = "k" THEN constantValue ELSE <<"P", 0>>

\* bits::countBits(mutation->deletedRows, 0, numValues)
countBits(bits, begin, end) == Cardinality({i \in bits : begin <= i /\ i < end})

\* Lines 68-77: the result is resized, every child spec's field is set to its
\* constant; g = [w, res].
setConstantFields(g, numValues, specs) ==
  LET F[i \in 0..Len(specs)] ==
        IF i = 0 THEN g
        ELSE IF F[i - 1].w.err # "" THEN F[i - 1]
        ELSE IF ~specs[i].isConstant
        THEN [w |-> Fail(F[i - 1].w, "check: child spec is constant"), res |-> F[i - 1].res]
        ELSE [w |-> Allocated(F[i - 1].w, "root", specs[i].name),
              res |-> [F[i - 1].res EXCEPT
                         !.children[specs[i].channel + 1] =
                            ConstantVector(numValues, constantOf(specs[i]))]]
  IN F[Len(specs)]

\* nextNoReaders that does not subtract the deleted rows.
nextNoReadersAllRows(w, numValues, result, mutation) ==
  setConstantFields([w |-> Mutated(w, "root", "result", result),
                     res |-> [result EXCEPT !.size = numValues]],
                    numValues, w.cfg.specs)

\* Lines 59-79: next on a reader without child readers.
nextNoReaders(w, numValues, result, mutation) ==
  LET Sized(n) ==
        setConstantFields([w |-> Mutated(w, "root", "result", result),
                           res |-> [result EXCEPT !.size = n]], n, w.cfg.specs)
  IN IF mutation.present /\ mutation.hasDeleted
     THEN Sized(numValues - countBits(mutation.deletedRows, 0, numValues))
     ELSE Sized(numValues)

\* What the caller passed as 'mutation': nullptr, no deletedRows, or some.
mutationKind(mutation) ==
  IF ~mutation.present THEN "none"
  ELSE IF ~mutation.hasDeleted THEN "noDeleted" ELSE "deleted"

\* The record of a call of next with its arguments.
nextCalled(w, numValues, mutation) ==
  Emit(w, Ev("next", "root", mutationKind(mutation), numValues,
             AscSeq(mutation.deletedRows)))

next(w, numValues, result, mutation, data) ==
  LET Values(w2) == getValues(w2, "root", "result", outputRows(w2, "root"), result)
      Read(w1, rows) == Values(read(w1, "root", w1.rd["root"].readOffset, rows, FALSE, {}, data))
      Rows(rows) ==
        Read([nextCalled(w, numValues, mutation) EXCEPT !.rd["root"].rows_ = rows,
                       !.rd["root"].mutation = mutation,
                       !.rd["root"].hasMutation = mutation.present /\ mutation.hasDeleted],
             rows)
  IN IF noChildReaders(w.cfg)
     THEN nextNoReaders(nextCalled(w, numValues, mutation), numValues, result, mutation)
     ELSE Rows(denseRows(w.rd["root"].rows_, numValues))

\* ------------------------------------------------------- column loader
\* The row vector a lazy vector hands to a struct reader: every field set.
loadTarget(r) ==
  IF IsStruct(r) THEN RowVector(0, [i \in 1..rowTypeSize(r) |-> FlatVector(<<>>)])
  ELSE NoVec

NoData == [pass |-> [r \in {"a", "c"} |-> {}]]

\* ColumnLoader::loadInternal for all the rows of the lazy vector.
loadInternal(w, lazy) ==
  LET s == w.rd["root"]
      Loaded(f) == [w |-> f.w, v |-> [lazy EXCEPT !.loaded = TRUE, !.inner = f.v]]
      AsField(g) == [w |-> g.w, v |-> g.res]
      Values(w2) ==
        IF IsStruct(lazy.reader)
        THEN AsField(getValues(w2, lazy.reader, lazy.reader, s.outputRows,
                               loadTarget(lazy.reader)))
        ELSE getValuesLeaf(w2, lazy.reader, lazy.reader, s.outputRows, NoVec)
  IN IF lazy.epoch # s.numReads
     THEN [w |-> Fail(w, "check: lazy vector loaded after the reader has moved"), v |-> lazy]
     ELSE Loaded(Values(readReader(
                   advanceFieldReader(w, "root", lazy.reader, s.lazyVectorReadOffset),
                   lazy.reader, s.lazyVectorReadOffset, s.outputRows,
                   s.hasNulls, s.nulls, NoData)))

\* ------------------------------------------------------- initial state
Configs ==
  [aMode : {"lazy", "extract", "filter", "filterOnly"},
   bMode : {"lazy", "extract"},
   bKind : {"none", "isNull", "isNotNull", "other"},
   cFilter : BOOLEAN,
   parentNullsInLeaves : BOOLEAN]

\* A result as BaseVector::create makes it: every field set.
populatedResult ==
  RowVector(0, <<FlatVector(<<>>), FlatVector(<<>>),
                 RowVector(0, <<FlatVector(<<>>), FlatVector(<<>>)>>)>>)

\* A lazy vector some other producer made and loaded, as a result handle.
LoadedLazy(inner) ==
  [enc |-> "LAZY", isRow |-> inner.isRow, shared |-> FALSE, size |-> inner.size,
   reader |-> "none", epoch |-> 0, loaded |-> TRUE, inner |-> inner]

\* The same before its load: of the result's row type, nothing loaded.
UnloadedLazy ==
  [enc |-> "LAZY", isRow |-> TRUE, shared |-> FALSE, size |-> 0,
   reader |-> "none", epoch |-> 0, loaded |-> FALSE, inner |-> NoVec]

\* The row another holder has a reference to.
heldResult == [populatedResult EXCEPT !.shared = TRUE]

\* The results a caller may hand to the first next().
InitialResults ==
  {populatedResult, RowVector(0, fillRowVectorChildren("root")),
   DictionaryVector(populatedResult), DictionaryVector(heldResult),
   LoadedLazy(populatedResult), LoadedLazy(heldResult),
   DictionaryVector(LoadedLazy(populatedResult)), UnloadedLazy,
   FlatVector(<<>>), NoVec}

Op(op, n, err) == [op |-> op, n |-> n, err |-> err, skips |-> last.skips]

Idle == [op |-> "idle", n |-> 0, err |-> "", skips |-> last.skips]

World == [cfg |-> cfg, rd |-> rd, file |-> file, detached |-> detached,
          log |-> <<>>, err |-> ""]

\* ----------------------------------------------------------- DataSink
\* nullptr: no sink.
NoneMade == [kind |-> "nullptr", name |-> <<>>]

\* No ::write call made yet in this write.
NoRequest == [index |-> 0, offset |-> 0, count |-> 0, bytesWritten |-> 0]

\* No sink made, no factory registered, nothing written.
NoSink ==
  [factories |-> <<>>, op |-> "idle", filePath |-> <<>>, metricsLog |-> FALSE,
   tried |-> <<>>, made |-> NoneMade, err |-> "",
   buffers |-> <<>>, index |-> 0, offset |-> 0, content |-> <<>>, before |-> <<>>,
   request |-> NoRequest, writes |-> 0]

\* strncmp(filename.c_str(), "file:", 5) == 0
hasFilePrefix(filename) ==
  Len(filename) >= 5 /\ SubSeq(filename, 1, 5) = <<"f", "i", "l", "e", ":">>

\* filename.substr(5)
substr5(filename) == SubSeq(filename, 6, Len(filename))

\* A sink constructor: the sink, or the exception when the file cannot be
\* opened (lines 73-77).
construct(kind, name, opens) ==
  IF opens THEN [kind |-> kind, name |-> name] ELSE [kind |-> "raised", name |-> name]

localWriteFileSink(filename, opens) ==
  IF hasFilePrefix(filename)
  THEN construct("WriteFileDataSink", substr5(filename), opens)
  ELSE NoneMade

localFileSink(filename, opens) ==
  IF hasFilePrefix(filename)
  THEN construct("LocalFileSink", substr5(filename), opens)
  ELSE NoneMade

\* A factory a caller registered: it takes the absolute paths.
callerSink(filename, opens) ==
  IF Len(filename) >= 1 /\ filename[1] = "/"
  THEN construct("CallerSink", filename, opens)
  ELSE NoneMade

Factories == {"localWriteFileSink", "localFileSink", "callerSink"}

\* factory(filePath, pool, metricsLog, stats)
callFactory(factory, filename, opens) ==
  CASE factory = "localWriteFileSink" -> localWriteFileSink(filename, opens)
    [] factory = "localFileSink" -> localFileSink(filename, opens)
    [] OTHER -> callerSink(filename, opens)

\* DataSink::registerFactory
registerFactory(s, factory) ==
  [s EXCEPT !.factories = Append(@, factory), !.op = "registerFactory"]

\* What a create call leaves in the state.
created(s, filePath, metricsLog, tried, made) ==
  [s EXCEPT !.op = "create", !.filePath = filePath, !.metricsLog = metricsLog,
            !.tried = tried,
            !.made = IF made.kind = "raised" THEN NoneMade ELSE made,
            !.err = IF made.kind = "raised" THEN "raise: can't open" ELSE ""]

\* create that goes on to the later factories after one returned a sink.
createLastWins(s, filePath, metricsLog, opens) ==
  LET F[i \in 0..Len(s.factories)] ==
        IF i = 0 THEN [tried |-> <<>>, made |-> NoneMade]
        ELSE IF callFactory(s.factories[i], filePath, opens) = NoneMade
        THEN [tried |-> Append(F[i - 1].tried, s.factories[i]), made |-> F[i - 1].made]
        ELSE [tried |-> Append(F[i - 1].tried, s.factories[i]),
              made |-> callFactory(s.factories[i], filePath, opens)]
      Fallback(lp) ==
        IF lp.made # NoneMade THEN created(s, filePath, metricsLog, lp.tried, lp.made)
        ELSE created(s, filePath, metricsLog, lp.tried,
                     construct("LocalFileSink", filePath, opens))
  IN IF ~metricsLog
     THEN [created(s, filePath, metricsLog, <<>>, NoneMade)
             EXCEPT !.err = "ensure: metricsLog is not null"]
     ELSE Fallback(F[Len(s.factories)])

\* DataSink::create (lines 127-142).
create(s, filePath, metricsLog, opens) ==
  LET F[i \in 0..Len(s.factories)] ==
        IF i = 0 THEN [tried |-> <<>>, made |-> NoneMade]
        ELSE IF F[i - 1].made # NoneMade THEN F[i - 1]
        ELSE [tried |-> Append(F[i - 1].tried, s.factories[i]),
              made |-> callFactory(s.factories[i], filePath, opens)]
      Fallback(lp) ==
        IF lp.made # NoneMade THEN created(s, filePath, metricsLog, lp.tried, lp.made)
        ELSE created(s, filePath, metricsLog, lp.tried,
                     construct("LocalFileSink", filePath, opens))
  IN IF ~metricsLog
     THEN [created(s, filePath, metricsLog, <<>>, NoneMade)
             EXCEPT !.err = "ensure: metricsLog is not null"]
     ELSE Fallback(F[Len(s.factories)])

\* The buffers of the given sizes; byte i of buffer k is <<k, i>>.
DataBuffers(sizes) ==
  [k \in 1..Len(sizes) |-> [i \in 1..sizes[k] |-> <<k, i>>]]

\* LocalFileSink::write is entered: writeImpl takes the first buffer, the
\* callback starts on it with offset 0.
writeBegin(s, buffers) ==
  [s EXCEPT !.op = IF buffers = <<>> THEN "written" ELSE "write",
            !.buffers = buffers,
            !.index = IF buffers = <<>> THEN 0 ELSE 1,
            !.offset = 0,
            !.before = s.content,
            !.request = NoRequest,
            !.err = "",
            !.writes = @ + 1]

\* while (offset < size)
inLoop(s) == s.op = "write" /\ s.offset < Len(s.buffers[s.index])

\* The request of the next ::write call and what it returned.
requested(s, bytesWritten) ==
  [index |-> s.index, offset |-> s.offset,
   count |-> Len(s.buffers[s.index]) - s.offset, bytesWritten |-> bytesWritten]

\* ::write put the first bytesWritten bytes of the request into the file.
transferred(s, bytesWritten) ==
  s.content \o SubSeq(s.buffers[s.index], s.offset + 1, s.offset + bytesWritten)

\* One iteration of the loop that goes on after a call that wrote nothing.
writeSomeNoProgressCheck(s, bytesWritten) ==
  IF bytesWritten = -1
  THEN [s EXCEPT !.op = "failed", !.err = "ensure: bad write",
                 !.request = requested(s, bytesWritten)]
  ELSE [s EXCEPT !.content = transferred(s, bytesWritten),
                 !.offset = @ + bytesWritten,
                 !.request = requested(s, bytesWritten)]

\* One iteration of the loop of LocalFileSink::write (lines 84-111).
writeSome(s, bytesWritten) ==
  IF bytesWritten = -1
  THEN [s EXCEPT !.op = "failed", !.err = "ensure: bad write",
                 !.request = requested(s, bytesWritten)]
  ELSE IF ~(bytesWritten > 0)
  THEN [s EXCEPT !.op = "failed", !.err = "ensure: no bytes transferred",
                 !.request = requested(s, bytesWritten)]
  ELSE [s EXCEPT !.content = transferred(s, bytesWritten),
                 !.offset = @ + bytesWritten,
                 !.request = requested(s, bytesWritten)]

\* The loop is left, the callback returns size, writeImpl goes to the next
\* buffer or returns.
writeReturn(s) ==
  IF s.index < Len(s.buffers)
  THEN [s EXCEPT !.index = @ + 1, !.offset = 0]
  ELSE [s EXCEPT !.op = "written"]

\* The paths a caller asks a sink for: file:/t, file:, file, /t and t.
Paths ==
  {<<"f", "i", "l", "e", ":", "/", "t">>, <<"f", "i", "l", "e", ":">>,
   <<"f", "i", "l", "e">>, <<"/", "t">>, <<"t">>}

\* ------------------------------------------------------ map_union_sum
\* The range of int8_t, the value type S of map(K, TINYINT).
MinValue == -128
MaxValue == 127

\* Map entries: key and value, value null, key null.
KV(key, value) == [keyNull |-> FALSE, key |-> key, valueNull |-> FALSE, value |-> value]
KNullV(key) == [keyNull |-> FALSE, key |-> key, valueNull |-> TRUE, value |-> 0]
NullK(value) == [keyNull |-> TRUE, key |-> "", valueNull |-> FALSE, value |-> value]

\* The rows of the base map vector that the input rows decode to.
InputMaps ==
  << <<KV("x", 100), KNullV("y")>>,
     <<KV("x", -100), NullK(100)>>,
     <<KV("x", 100)>>,
     <<KV("y", 100), KNullV("x")>>,
     <<>> >>

Entries == UNION {{InputMaps[m][i] : i \in 1..Len(InputMaps[m])} : m \in DOMAIN InputMaps}

Groups == {"g1", "g2"}

\* An accumulator without keys.
NoSums == [k \in {} |-> 0]

\* No group allocated.
NoGroups ==
  [groups |-> [g \in {} |-> 0], err |-> "", failed |-> [a |-> 0, b |-> 0], inputs |-> 0]

\* initializeNewGroups: the groups are null, their accumulators empty. added
\* counts the entries of the non-null maps given to the group, first is the
\* base row of the first of these maps.
initializeNewGroups(a, indices) ==
  [a EXCEPT !.groups =
     [g \in DOMAIN a.groups \cup indices |->
        IF g \in indices
        THEN [isNull |-> TRUE, sums |-> NoSums,
              added |-> [e \in Entries |-> 0], first |-> 0]
        ELSE a.groups[g]]]

\* functions::checkedPlus<S>
checkedPlus(a, b) ==
  [overflow |-> ~(a + b \in MinValue..MaxValue), value |-> a + b]

\* sums[key]: operator[] of the map inserts a zero for a new key.
touched(sums, key) ==
  [k \in DOMAIN sums \cup {key} |-> IF k \in DOMAIN sums THEN sums[k] ELSE 0]

\* An int8_t += as the floating-point branch makes it: the int sum is
\* converted back to int8_t.
addValueUnchecked(acc, entry) ==
  IF entry.valueNull
  THEN [acc EXCEPT !.sums = touched(acc.sums, entry.key)]
  ELSE [acc EXCEPT !.sums =
          [touched(acc.sums, entry.key) EXCEPT
             ![entry.key] = ((@ + entry.value - MinValue) % 256) + MinValue]]

\* Accumulator::addValue (lines 62-74).
addValue(acc, entry) ==
  IF entry.valueNull
  THEN [acc EXCEPT !.sums = touched(acc.sums, entry.key)]
  ELSE LET plus(sums) ==
             IF checkedPlus(sums[entry.key], entry.value).overflow
             THEN [sums |-> sums, err |-> "integer overflow",
                   failed |-> [a |-> sums[entry.key], b |-> entry.value]]
             ELSE [acc EXCEPT !.sums =
                     [sums EXCEPT ![entry.key] =
                        checkedPlus(sums[entry.key], entry.value).value]]
       IN plus(touched(acc.sums, entry.key))

\* Accumulator::addValues (lines 44-60); an exception leaves the loop.
addValues(acc, map) ==
  LET F[i \in 0..Len(map)] ==
        IF i = 0 THEN acc
        ELSE IF F[i - 1].err # "" THEN F[i - 1]
        ELSE IF map[i].keyNull THEN F[i - 1]
        ELSE addValue(F[i - 1], map[i])
  IN F[Len(map)]

\* The record of what the group was given.
noted(group, index) ==
  [group EXCEPT
     !.added = [e \in Entries |->
                  @[e] + Cardinality({i \in 1..Len(InputMaps[index]) :
                                        InputMaps[index][i] = e})],
     !.first = IF @ = 0 THEN index ELSE @]

\* The body of the loop over the selected rows (lines 221-230).
addRow(a, row) ==
  IF row.isNull THEN a
  ELSE LET put(acc) ==
             [a EXCEPT !.groups[row.group] =
                         [noted(@, row.index) EXCEPT !.isNull = FALSE,
                                                     !.sums = acc.sums],
                       !.err = acc.err,
                       !.failed = acc.failed]
       IN put(addValues([sums |-> a.groups[row.group].sums, err |-> "",
                         failed |-> a.failed],
                        InputMaps[row.index]))

\* MapUnionSumAggregate::addRawInput (lines 212-232).
addRawInput(a, rows) ==
  LET F[i \in 0..Len(rows)] ==
        IF i = 0 THEN [a EXCEPT !.inputs = @ + 1]
        ELSE IF F[i - 1].err # "" THEN F[i - 1]
        ELSE addRow(F[i - 1], rows[i])
  IN F[Len(rows)]

\* The rows of an input vector: the group of the row, and a null or the
\* base row it decodes to.
InputRows ==
  {[group |-> g, isNull |-> FALSE, index |-> i] : g \in Groups, i \in DOMAIN InputMaps}
    \cup {[group |-> g, isNull |-> TRUE, index |-> 1] : g \in Groups}

InitOthers ==
  /\ rowGroups = {}
  /\ sink = NoSink
  /\ agg = NoGroups

InitReaders ==
  /\ rd = [r \in Readers |-> InitReader]
  /\ file = [bNulls |-> {}]
  /\ detached = {}
  /\ log = <<>>
  /\ last = [op |-> "idle", n |-> 0, err |-> "", skips |-> 0]

InitState == InitReaders /\ InitOthers

\* ---------------------------------------------------------------- inputs
\* The row sets a null bitmap or a filter is drawn from.
Picks(n) == {{}, {0}, {n - 1}, 0..(n - 1)}

Mutations(n) ==
  {NoMutation, [present |-> TRUE, hasDeleted |-> FALSE, deletedRows |-> {}]}
    \cup {[present |-> TRUE, hasDeleted |-> TRUE, deletedRows |-> S] :
            S \in SUBSET (0..(n - 1))}

PassSets(r, n) == IF hasFilter(cfg, r) THEN Picks(n) ELSE {0..(n - 1)}

Running == last.err = ""

\* --------------------------------------------------------------- actions
\* The state a call leaves: g = [w, res] as the call returned them.
Returned(g, op, n) ==
  /\ rd' = g.w.rd
  /\ file' = g.w.file
  /\ batch' = g.res
  /\ detached' = g.w.detached
  /\ log' = g.w.log
  /\ last' = Op(op, n, g.w.err)
  /\ UNCHANGED <<cfg, otherVars>>

Skipped(w, n) ==
  /\ rd' = w.rd
  /\ log' = w.log
  /\ last' = [Op("skip", n, w.err) EXCEPT !.skips = @ + 1]
  /\ UNCHANGED <<cfg, file, batch, detached, otherVars>>

\* The result after the lazy vector of channel ch - 1 was loaded (ch = 0: a
\* vector outside the result).
Loaded(g, ch) ==
  [w |-> g.w,
   res |-> IF ch = 0 THEN batch ELSE [batch EXCEPT !.children[ch] = g.v]]

\* The caller reads the next batch of numValues rows.
NextCallWithin(maxBatch, maxOffset) ==
  /\ Running
  /\ \E n \in 1..maxBatch :
       /\ rd["root"].readOffset + n <= maxOffset
       /\ \E mutation \in Mutations(n), bNulls \in Picks(n) :
          \E aPass \in PassSets("a", n), cPass \in PassSets("c", n) :
            Returned(next([World EXCEPT !.file = [bNulls |-> bNulls]], n, batch, mutation,
                          [pass |-> [a |-> aPass, c |-> cPass]]), "next", n)

NextCall == NextCallWithin(MaxBatch, MaxOffset)

\* A module registers a sink factory.
RegisterFactory ==
  /\ Len(sink.factories) < MaxFactories
  /\ \E factory \in Factories : sink' = registerFactory(sink, factory)
  /\ UNCHANGED <<readerVars, rowGroups, agg>>

\* A writer asks for a sink.
CreateCall ==
  /\ \E filePath \in Paths, metricsLog \in BOOLEAN, opens \in BOOLEAN :
       sink' = create(sink, filePath, metricsLog, opens)
  /\ UNCHANGED <<readerVars, rowGroups, agg>>

\* The caller asks a reader without child readers for numValues rows; the
\* mutation may mark deleted rows at and after numValues too.
NextNoReaders ==
  /\ Running
  /\ \E n \in 1..MaxDenseBatch :
       \E mutation \in Mutations(n + 1) :
         Returned(next(World, n, batch, mutation, NoData), "next", n)

\* The caller skips numValues rows; the format reports the non-null counts.
SkipCall ==
  /\ Running
  /\ last.skips < MaxSkips
  /\ \E n \in 1..MaxBatch :
       /\ \A r \in Readers : rd[r].readOffset + n <= MaxOffset
       /\ \E nnRoot \in 0..n :
          \E nnB \in 0..nnRoot :
            Skipped(skip(World, "root", n, [root |-> nnRoot, b |-> nnB]), n)

\* A holder of the result loads the lazy vector of a field.
LoadCall ==
  /\ Running
  /\ batch.enc = "ROW"
  /\ \E ch \in 2..3 :
       /\ batch.children[ch].enc = "LAZY"
       /\ ~batch.children[ch].loaded
       /\ Returned(Loaded(loadInternal(World, batch.children[ch]), ch), "load", ch)

\* A holder loads a lazy vector it kept from an earlier batch.
LoadDetached ==
  /\ Running
  /\ \E p \in detached :
       Returned(Loaded(loadInternal(World, LazyVector(0, p.reader, p.epoch)), 0),
                "loadDetached", p.epoch)

\* The vectors of the result another holder can take a reference to.
Slots == {"result", "k", "a", "b", "d"}

SlotGet(v, slot) ==
  CASE slot = "result" -> v
    [] slot = "k" -> IF v.enc = "ROW" THEN v.children[1] ELSE NoVec
    [] slot = "a" -> IF v.enc = "ROW" THEN v.children[2] ELSE NoVec
    [] slot = "b" -> IF v.enc = "ROW" THEN v.children[3] ELSE NoVec
    [] OTHER -> IF v.enc = "ROW" /\ v.children[3].enc = "ROW"
                THEN v.children[3].children[2] ELSE NoVec

SlotSet(v, slot, x) ==
  CASE slot = "result" -> x
    [] slot = "k" -> [v EXCEPT !.children[1] = x]
    [] slot = "a" -> [v EXCEPT !.children[2] = x]
    [] slot = "b" -> [v EXCEPT !.children[3] = x]
    [] OTHER -> [v EXCEPT !.children[3].children[2] = x]

SharedSlots == {s \in Slots : SlotGet(batch, s).shared}

\* Another holder takes a reference to a vector of the result.
Hold ==
  /\ Running
  /\ Cardinality(SharedSlots) < MaxShared
  /\ \E s \in Slots :
       /\ SlotGet(batch, s).enc \in {"ROW", "CONSTANT", "LAZY"}
       /\ ~SlotGet(batch, s).shared
       /\ batch' = SlotSet(batch, s, [SlotGet(batch, s) EXCEPT !.shared = TRUE])
       /\ log' = <<>>
       /\ last' = Idle
       /\ UNCHANGED <<cfg, rd, file, detached, otherVars>>

\* The other holder drops its reference.
Release ==
  /\ Running
  /\ \E s \in Slots :
       /\ SlotGet(batch, s).shared
       /\ batch' = SlotSet(batch, s, [SlotGet(batch, s) EXCEPT !.shared = FALSE])
       /\ log' = <<>>
       /\ last' = Idle
       /\ UNCHANGED <<cfg, rd, file, detached, otherVars>>

\* The row groups a filter's statistics are drawn from.
GroupPicks == {{}, {0}, {MaxRowGroups - 1}}

\* The caller filters the row groups of a stripe into the result it holds.
FilterRowGroupsCall ==
  \E sa \in GroupPicks, sb \in GroupPicks, sc \in GroupPicks :
    /\ rowGroups' = filterRowGroups(World, "root", rowGroups,
                                    [root |-> {}, a |-> sa, b |-> sb, c |-> sc]).res
    /\ log' = filterRowGroups(World, "root", rowGroups,
                              [root |-> {}, a |-> sa, b |-> sb, c |-> sc]).w.log
    /\ last' = Op("filterRowGroups", 0, "")
    /\ UNCHANGED <<cfg, rd, file, batch, detached, sink, agg>>

\* ------------------------------------------------------- specifications
\* Scanning: batches and skips under every scan specification; the result
\* is the caller's own from batch to batch.
InitScan ==
  /\ cfg \in Configs
  /\ batch = populatedResult
  /\ InitState

NextScan == NextCall \/ SkipCall

SpecScan == InitScan /\ [][NextScan]_vars

\* Results: batches whose result other holders may keep and load, under the
\* scan specifications without a filter on the nested struct or below it.
InitValues ==
  /\ cfg \in {c \in Configs : ~hasFilter(c, "b") /\ ~c.parentNullsInLeaves}
  /\ batch \in InitialResults
  /\ InitState

NextValues == NextCall \/ LoadCall \/ LoadDetached \/ Hold \/ Release

SpecValues == InitValues /\ [][NextValues]_vars

\* Batches of growing and shrinking sizes, with and without a mutation, under
\* the scan specifications without a filter and with b left to a lazy vector.
InitDense ==
  /\ cfg \in {c \in Configs : /\ ~hasFilter(c, "root")
                               /\ ~c.parentNullsInLeaves
                               /\ c.bMode = "lazy"}
  /\ batch = populatedResult
  /\ InitState

NextDense == NextCallWithin(MaxDenseBatch, MaxDenseOffset)

SpecDense == InitDense /\ [][NextDense]_vars

\* The scans that select constants only: count(*), one or two constant
\* columns, and the scans whose spec holds a child that is not constant.
ConstantScans ==
  LET k == ChildSpec("k", TRUE, kConstantChildSpecSubscript, 0, TRUE, FALSE, FALSE)
      p == ChildSpec("p", TRUE, kConstantChildSpecSubscript, 1, TRUE, FALSE, FALSE)
      a == ChildSpec("a", FALSE, 1, 1, TRUE, FALSE, FALSE)
  IN {[specs |-> sp] : sp \in {<<>>, <<k>>, <<k, p>>, <<p, k>>, <<k, a>>, <<a, k>>}}

InitNoReaders ==
  /\ cfg \in ConstantScans
  /\ batch \in {populatedResult, heldResult, RowVector(0, fillRowVectorChildren("root"))}
  /\ InitState

SpecNoReaders == InitNoReaders /\ [][NextNoReaders]_vars

\* LocalFileSink::write is called with buffers of some sizes.
WriteCall ==
  /\ sink.made.kind = "LocalFileSink"
  /\ sink.op # "write"
  /\ sink.writes < MaxWrites
  /\ \E n \in 0..MaxBuffers : \E sizes \in [1..n -> 0..MaxBufferSize] :
       sink' = writeBegin(sink, DataBuffers(sizes))
  /\ UNCHANGED <<readerVars, rowGroups, agg>>

\* One ::write system call and the two checks on what it returned.
WriteSome ==
  /\ inLoop(sink)
  /\ \E bytesWritten \in -1..(Len(sink.buffers[sink.index]) - sink.offset) :
       sink' = writeSome(sink, bytesWritten)
  /\ UNCHANGED <<readerVars, rowGroups, agg>>

\* The loop condition fails.
WriteReturn ==
  /\ sink.op = "write"
  /\ ~inLoop(sink)
  /\ sink' = writeReturn(sink)
  /\ UNCHANGED <<readerVars, rowGroups, agg>>

\* The aggregation gets a vector of maps.
AddRawInput ==
  /\ agg.err = ""
  /\ agg.inputs < MaxInputs
  /\ \E n \in 1..MaxRows : \E rows \in [1..n -> InputRows] :
       agg' = addRawInput(agg, rows)
  /\ UNCHANGED <<readerVars, rowGroups, sink>>

\* Sink creation: factories are registered, sinks are asked for.
InitOutside ==
  /\ cfg = [specs |-> <<>>]
  /\ batch = NoVec
  /\ InitReaders

InitCreate ==
  /\ InitOutside
  /\ InitOthers

SpecCreate == InitCreate /\ [][RegisterFactory \/ CreateCall]_vars

\* Writing: a LocalFileSink that create made as the fallback is written to.
InitWrite ==
  /\ InitOutside
  /\ rowGroups = {}
  /\ agg = NoGroups
  /\ sink = create(NoSink, <<"t">>, TRUE, TRUE)

NextWrite == WriteCall \/ WriteSome \/ WriteReturn

SpecWrite == InitWrite /\ [][NextWrite]_vars

\* The thread in write goes on running: a ::write call returns, the loop
\* condition is evaluated.
SpecWriteFair == SpecWrite /\ WF_vars(WriteSome) /\ WF_vars(WriteReturn)

\* Aggregation: two groups, initialized, get their inputs.
InitAggregate ==
  /\ InitOutside
  /\ rowGroups = {}
  /\ sink = NoSink
  /\ agg = initializeNewGroups(NoGroups, Groups)

SpecAggregate == InitAggregate /\ [][AddRawInput]_vars

\* Row-group filtering: one reader tree per scan specification, a result
\* that may already mark a row group, any number of calls.
InitRowGroups ==
  /\ cfg \in Configs
  /\ batch = populatedResult
  /\ InitReaders
  /\ rowGroups \in {{}, {1}}
  /\ sink = NoSink
  /\ agg = NoGroups

SpecRowGroups == InitRowGroups /\ [][FilterRowGroupsCall]_vars

\* ----------------------------------------------------------- properties
\* What the log of the last call holds.
Events(e, r, c) == {i \in DOMAIN log : log[i].e = e /\ log[i].r = r /\ log[i].c = c}

StructReads == {i \in DOMAIN log : log[i].e = "read" /\ IsStruct(log[i].r)}

ReadReturned == last.op \in {"next", "load"} /\ last.err = ""

NonConstantChildren(r) ==
  {children_(r)[sp.subscript] :
     sp \in {x \in Range(childSpecs(cfg, r)) : ~isChildConstant(r, x)}}

AllDeleted(r) == \E i \in Events("active", r, "mutation") : log[i].rows = <<>>

\* C1: every read of a struct reader that returns normally leaves the
\* reader's readOffset at offset + rows.back() + 1, on every return path.
C1_ReadOffsetOnEveryReturn ==
  ReadReturned =>
    \A i \in StructReads :
      rd[log[i].r].readOffset = log[i].off + Last(log[i].rows) + 1

C3_RowSetMonotone ==
  \A i \in DOMAIN log :
    log[i].e = "active" =>
      \A j \in 1..(i - 1) :
        (log[j].r = log[i].r /\ log[j].e \in {"active", "read"})
          => Range(log[i].rows) \subseteq Range(log[j].rows)

\* A read whose rows were narrowed twice, each time losing a row.
C3_NarrowedTwice ==
  \E i, j \in Events("active", "root", "mutation") \cup Events("active", "root", "a")
              \cup Events("active", "root", "b") :
    /\ i < j
    /\ Len(log[j].rows) < Len(log[i].rows)
    /\ Len(log[i].rows) < last.n

\* C4 as stated: in every read, each non-constant child gets addParentNulls
\* exactly once unless the format reports parentNullsInLeaves, and then never.
C4_ExactlyOnePerRead ==
  ReadReturned =>
    \A i \in StructReads : \A child \in NonConstantChildren(log[i].r) :
      Cardinality(Events("addParentNulls", log[i].r, child))
        = IF cfg.parentNullsInLeaves THEN 0 ELSE 1

\* C4: the same, except in a read that returns because the mutation deleted
\* every row: that read calls addParentNulls on no child.
C4_ExactlyOneUnlessAllDeleted ==
  ReadReturned =>
    \A i \in StructReads : \A child \in NonConstantChildren(log[i].r) :
      Cardinality(Events("addParentNulls", log[i].r, child))
        = IF cfg.parentNullsInLeaves \/ AllDeleted(log[i].r) THEN 0 ELSE 1

\* A read of the nested struct that returned early from its own filter and
\* still passed its nulls to its child.
C4_EarlyReturnPropagates ==
  /\ ReadReturned
  /\ ~cfg.parentNullsInLeaves
  /\ \E i \in Events("active", "b", "filter") : log[i].rows = <<>>
  /\ Cardinality(Events("addParentNulls", "b", "c")) = 1
  /\ Cardinality(Events("addParentNulls", "root", "b")) = 1

\* C5: a container is changed in place only when no other holder references
\* it, and when another holder references the previous result getValues
\* returns a freshly allocated one.
C5_ReuseSafety ==
  /\ \A i \in DOMAIN log : log[i].e = "mutate" => log[i].off = 0
  /\ (last.op = "next" /\ Events("alloc", "root", "result") # {})
       => /\ last.err = ""
          /\ batch.enc = "ROW"
          /\ ~batch.shared

\* C6: with deleted rows and dense input rows 0..n-1, read's active rows are
\* the ascending undeleted indices; without a filter they are the output
\* rows, and getValues yields n minus the number of deleted rows.
C6_MutationRows ==
  (last.op = "next" /\ last.err = "" /\ rd["root"].hasMutation) =>
    LET kept == (0..(last.n - 1)) \ rd["root"].mutation.deletedRows
    IN /\ \E i \in Events("active", "root", "mutation") :
            IsAscending(log[i].rows) /\ Range(log[i].rows) = kept
       /\ ~hasFilter(cfg, "root") =>
            /\ IsAscending(rd["root"].outputRows)
            /\ Range(rd["root"].outputRows) = kept
            /\ batch.size = last.n - Cardinality(rd["root"].mutation.deletedRows)

\* A batch of two rows whose first row is deleted: one row comes out.
C6_OneOfTwoDeleted ==
  /\ last.op = "next" /\ last.err = "" /\ last.n = 2
  /\ rd["root"].hasMutation
  /\ rd["root"].mutation.deletedRows = {0}
  /\ ~hasFilter(cfg, "root")
  /\ rd["root"].outputRows = <<1>>
  /\ batch.size = 1

\* C7: for a projected field missing from the file, getValues with rows
\* produces an all-null constant of size rows.size() and raises no error,
\* whether the field slot was unset or held a column.
C7_MissingFieldIsNullConstant ==
  (last.op = "next" /\ batch.enc = "ROW") =>
    \A i \in Events("getValues", "b", "b") :
      log[i].rows # <<>> =>
        /\ last.err = ""
        /\ SlotGet(batch, "d").enc = "CONSTANT"
        /\ SlotGet(batch, "d").value = NullV
        /\ SlotGet(batch, "d").size = Len(log[i].rows)

Touched(slot) == Events("alloc", "root", slot) \cup Events("mutate", "root", slot)

StaleLoad == "check: lazy vector loaded after the reader has moved"

\* C8: a lazy vector made or reset by getValues carries the epoch of the
\* reader's latest read; one kept from before a later read is of an earlier
\* epoch and loading it fails; loading one of the current epoch succeeds.
C8_ReadEpochs ==
  /\ (last.op = "next" /\ last.err = "" /\ batch.enc = "ROW") =>
       \A ch \in 2..3 :
         (batch.children[ch].enc = "LAZY" /\ Touched(IF ch = 2 THEN "a" ELSE "b") # {})
           => /\ batch.children[ch].epoch = rd["root"].numReads
              /\ ~batch.children[ch].loaded
  /\ \A p \in detached : p.epoch < rd["root"].numReads
  /\ last.op = "loadDetached" => last.err = StaleLoad
  /\ last.op = "load" =>
       IF batch.children[last.n].epoch = rd["root"].numReads
       THEN last.err = "" /\ batch.children[last.n].loaded
       ELSE last.err = StaleLoad /\ ~batch.children[last.n].loaded

\* A lazy vector left in the result over a later read, then loaded.
C8_StaleLoadFails ==
  /\ last.op = "load"
  /\ last.err = StaleLoad
  /\ batch.children[last.n].epoch < rd["root"].numReads

KeptRows ==
  AscSeq({x \in 0..(Len(rd["root"].rows_) - 1) :
            ~(rd["root"].hasMutation /\ x \in rd["root"].mutation.deletedRows)})

\* The rows the last batch asks values for: those the filter of a passed.
RequestedRows ==
  IF hasFilter(cfg, "a") /\ KeptRows # <<>> THEN rd["a"].outputRows ELSE KeptRows

\* The offset the last read of the root started from.
LastOffset == rd["root"].readOffset - Len(rd["root"].rows_)

\* The values and nulls the file holds for a leaf at the given rows.
Decoded(r, rows, nulls) ==
  [i \in 1..Len(rows) |->
     IF rows[i] \in nulls THEN NullV ELSE Val(r, LastOffset + rows[i])]

\* What the struct b holds at the given rows: size, nulls, the values of c.
DecodedB(rows) ==
  [size |-> Len(rows),
   nulls |-> {i \in 0..(Len(rows) - 1) : rows[i + 1] \in file.bNulls},
   c |-> Decoded("c", rows, file.bNulls)]

ContentB(v) == [size |-> v.size, nulls |-> v.nulls, c |-> v.children[1].vals]

\* C10: a projected unfiltered child loaded from its lazy vector within the
\* epoch holds the values and nulls the file has for the batch's rows, and
\* so does the child when it is read eagerly and extracted by getValues.
C10_LazyEqualsEager ==
  /\ (last.op = "load" /\ last.err = "") =>
       /\ last.n = 2 => batch.children[2].inner.vals = Decoded("a", RequestedRows, {})
       /\ last.n = 3 => ContentB(batch.children[3].inner) = DecodedB(RequestedRows)
  /\ (last.op = "next" /\ last.err = "" /\ RequestedRows # <<>>) =>
       /\ cfg.aMode = "extract" => batch.children[2].vals = Decoded("a", RequestedRows, {})
       /\ cfg.bMode = "extract" => ContentB(batch.children[3]) = DecodedB(RequestedRows)

\* The nested struct loaded from its lazy vector in a later batch, a null
\* struct among its rows.
C10_LoadedStruct ==
  /\ last.op = "load" /\ last.err = "" /\ last.n = 3
  /\ LastOffset > 0
  /\ batch.children[3].loaded
  /\ batch.children[3].inner.nulls # {}

\* C11: skip(numValues) on a struct returns numValues, makes every child
\* skip the non-null count skipNulls(numValues) returned, and then sets the
\* child's readOffset, through the child's whole subtree, to the child's
\* offset from before the call plus numValues.
C11_SkipCountsAndOffsets ==
  [][last'.skips = last.skips + 1 =>
       /\ \E i \in DOMAIN log' :
            /\ log'[i] = Ev("return", "root", "skip", last'.n, <<>>)
            /\ i = Len(log')
       /\ \A s \in {"root", "b"} : \A child \in Range(children_(s)) :
            \E i, j \in DOMAIN log' :
              /\ log'[i].e = "skipNulls" /\ log'[i].r = s
              /\ log'[j].e = "skip" /\ log'[j].r = child
              /\ log'[j].off = log'[i].off
       /\ rd'["a"].readOffset = rd["a"].readOffset + last'.n
       /\ rd'["b"].readOffset = rd["b"].readOffset + last'.n
       /\ rd'["c"].readOffset = rd["b"].readOffset + last'.n]_vars

\* A skip of two rows, one of them a null struct at the root, the other a
\* null nested struct: the leaf below skips nothing and ends two rows on.
C11_SkipTwoLevels ==
  /\ last.op = "skip" /\ last.n = 2
  /\ \E i \in Events("skipNulls", "root", "") : log[i].off = 1
  /\ \E i \in Events("skipNulls", "b", "") : log[i].off = 0
  /\ \E i \in Events("skip", "c", "") : log[i].off = 0
  /\ rd["c"].readOffset = 2

\* C12: when the mutation deletes every row of the read window, read moves
\* readOffset past the whole window and returns with an empty output row set;
\* no child is read, skipped, advanced or given parent nulls, and every
\* child's fields, readOffset included, are what they were before the call.
C12_AllDeletedTouchesNoChild ==
  [][(/\ last'.op = "next"
      /\ \E i \in DOMAIN log' :
           log'[i] = Ev("active", "root", "mutation", rd["root"].readOffset, <<>>)) =>
       /\ last'.err = ""
       /\ rd'["root"].readOffset = rd["root"].readOffset + last'.n
       /\ rd'["root"].outputRows = <<>>
       /\ \A r \in {"a", "b", "c"} : rd'[r] = rd[r]
       /\ \A i \in DOMAIN log' :
            /\ log'[i].e \notin {"skip", "advance", "addParentNulls"}
            /\ log'[i].e \in {"read", "getValues"} => log'[i].r = "root"]_vars

\* A second batch with every row deleted, after a batch that read child a.
C12_SecondBatchAllDeleted ==
  /\ last.op = "next" /\ last.n = 1 /\ last.err = ""
  /\ AllDeleted("root")
  /\ rd["root"].readOffset = 2
  /\ rd["a"].readOffset = 1
  /\ rd["root"].outputRows = <<>>
  /\ batch.size = 0

\* C13: every propagation of struct nulls to a child is made over the rows
\* the struct's read was called with, at the read's offset, and reaches every
\* non-constant child: also when a child filter emptied the active rows and
\* the loop stopped early, and when the struct's own filter left no row.
C13_PropagationOverRequestedRows ==
  \A i \in DOMAIN log :
    log[i].e = "addParentNulls" =>
      /\ \E j \in StructReads :
           /\ j < i
           /\ log[j].r = log[i].r
           /\ log[j].off = log[i].off
           /\ log[j].rows = log[i].rows
      /\ \A child \in NonConstantChildren(log[i].r) :
           \E k \in DOMAIN log :
             /\ log[k].e = "addParentNulls" /\ log[k].r = log[i].r /\ log[k].c = child
             /\ log[k].rows = log[i].rows

\* The filter of a left no row of two: the loop stopped before b, and b still
\* got the nulls of both rows.
C13_BreakStillPropagates ==
  /\ last.op = "next" /\ last.err = ""
  /\ cfg.bMode = "extract"
  /\ \E i \in Events("active", "root", "a") : log[i].rows = <<>>
  /\ \E i \in Events("read", "root", "") : log[i].rows = <<0, 1>>
  /\ Events("read", "b", "") = {}
  /\ Events("advance", "root", "b") = {}
  /\ \E i \in Events("addParentNulls", "root", "b") : log[i].rows = <<0, 1>>

\* The position of a child among the scan spec's children of struct r.
SpecIndex(r, child) ==
  CHOOSE i \in DOMAIN childSpecs(cfg, r) : childSpecs(cfg, r)[i].name = child

\* The struct reads of the last call that a child filter left without a row.
ShortCircuits ==
  {i \in DOMAIN log : /\ log[i].e = "active"
                      /\ log[i].c \in Readers
                      /\ log[i].rows = <<>>}

\* C14: a struct's children are advanced in scan-spec order; once a filtered
\* child left no row, the struct advances and reads no later child in that
\* read call, and the read still records an empty output row set, propagates
\* the parent nulls and sets its two offsets.
C14_ShortCircuit ==
  /\ \A i, k \in DOMAIN log :
       (/\ log[i].e = "advance" /\ log[k].e = "advance"
        /\ log[i].r = log[k].r /\ i < k) =>
         SpecIndex(log[i].r, log[i].c) < SpecIndex(log[k].r, log[k].c)
  /\ \A i \in ShortCircuits :
       /\ \A k \in DOMAIN log :
            k > i => /\ ~(log[k].e = "advance" /\ log[k].r = log[i].r)
                     /\ ~(log[k].e = "read"
                          /\ \E x \in DOMAIN childSpecs(cfg, log[i].r) :
                               /\ x > SpecIndex(log[i].r, log[i].c)
                               /\ childSpecs(cfg, log[i].r)[x].name = log[k].r)
       /\ last.err = "" =>
            /\ rd[log[i].r].outputRows = <<>>
            /\ \E j \in StructReads :
                 /\ j < i /\ log[j].r = log[i].r
                 /\ rd[log[i].r].readOffset = log[j].off + Last(log[j].rows) + 1
                 /\ rd[log[i].r].lazyVectorReadOffset = log[j].off
            /\ ~cfg.parentNullsInLeaves =>
                 \A child \in NonConstantChildren(log[i].r) :
                   \E k \in DOMAIN log :
                     /\ k > i
                     /\ log[k].e = "addParentNulls"
                     /\ log[k].r = log[i].r /\ log[k].c = child

\* The filter of a, first in scan-spec order, left no row: b, whose values
\* the scan extracts, was neither advanced nor read, and the batch is empty.
C14_FirstChildEmptiesBatch ==
  /\ last.op = "next" /\ last.n = 2 /\ last.err = ""
  /\ cfg.bMode = "extract"
  /\ \E i \in ShortCircuits : log[i].r = "root" /\ log[i].c = "a"
  /\ Events("advance", "root", "b") = {}
  /\ rd["root"].outputRows = <<>>
  /\ rd["root"].readOffset = 2
  /\ batch.size = 0

\* The vector the result holds for a field of struct r.
FieldOf(r, childSpec) ==
  IF r = "root" THEN batch.children[childSpec.channel + 1]
  ELSE batch.children[3].children[childSpec.channel + 1]

\* The child specs of struct r that are projected, not constant and present.
ReadableSpecs(r) ==
  {sp \in Range(childSpecs(cfg, r)) :
     /\ sp.projectOut
     /\ ~isChildConstant(r, sp)
     /\ sp.subscript # kConstantChildSpecSubscript}

WasRead(child) == \E k \in DOMAIN log : log[k].e = "read" /\ log[k].r = child

Extracted(child) == \E k \in DOMAIN log : log[k].e = "getValues" /\ log[k].r = child

\* C15: in a call whose getValues visits the fields of a struct, each
\* projected, non-constant, present child was read by the struct's read
\* exactly when getValues took its values from the child's own getValues, and
\* was left unread exactly when getValues bound a lazy vector of the current
\* read for it.
C15_DeferralConsistent ==
  (last.op = "next" /\ last.err = "") =>
    \A i \in DOMAIN log :
      (log[i].e = "getValues" /\ IsStruct(log[i].r) /\ log[i].rows # <<>>) =>
        \A sp \in ReadableSpecs(log[i].r) :
          /\ WasRead(children_(log[i].r)[sp.subscript])
               <=> Extracted(children_(log[i].r)[sp.subscript])
          /\ WasRead(children_(log[i].r)[sp.subscript])
               <=> FieldOf(log[i].r, sp).enc # "LAZY"
          /\ FieldOf(log[i].r, sp).enc = "LAZY" =>
               /\ ~FieldOf(log[i].r, sp).loaded
               /\ FieldOf(log[i].r, sp).reader = children_(log[i].r)[sp.subscript]
               /\ FieldOf(log[i].r, sp).epoch = rd[log[i].r].numReads
          /\ deferred(children_(log[i].r)[sp.subscript], sp)
               <=> ~WasRead(children_(log[i].r)[sp.subscript])

\* One batch with a extracted and b deferred: a was read and its values
\* taken, b was left unread behind a lazy vector.
C15_OneReadOneDeferred ==
  /\ last.op = "next" /\ last.err = "" /\ batch.size = 2
  /\ WasRead("a") /\ Extracted("a") /\ batch.children[2].enc = "FLAT"
  /\ ~WasRead("b") /\ ~Extracted("b") /\ batch.children[3].enc = "LAZY"

RECURSIVE ReachesRow(_)
RECURSIVE UniqueToRow(_)

\* Unwrapping the loaded lazy and dictionary layers of v ends at a row vector.
ReachesRow(v) ==
  CASE v.enc = "ROW" -> TRUE
    [] v.enc = "LAZY" -> v.loaded /\ ReachesRow(v.inner)
    [] v.enc = "DICTIONARY" -> ReachesRow(v.inner)
    [] OTHER -> FALSE

\* The same, and no layer on the way, the row included, has another holder.
UniqueToRow(v) ==
  /\ ~v.shared
  /\ CASE v.enc = "ROW" -> TRUE
       [] v.enc = "LAZY" -> v.loaded /\ UniqueToRow(v.inner)
       [] v.enc = "DICTIONARY" -> UniqueToRow(v.inner)
       [] OTHER -> FALSE

\* The next() calls whose getValues passed its checks on the result.
RootValuesTaken == last'.op = "next" /\ \E i \in DOMAIN log' :
  log'[i].e = "getValues" /\ log'[i].r = "root"

ReusedInPlace == \E i \in DOMAIN log' :
  log'[i].e = "mutate" /\ log'[i].r = "root" /\ log'[i].c = "result"

AllocatedFresh == \E i \in DOMAIN log' :
  log'[i].e = "alloc" /\ log'[i].r = "root" /\ log'[i].c = "result"

\* C16 as stated: getValues reuses the previous result in place exactly when
\* the caller holds the sole reference to the result handle and unwrapping
\* its lazy and dictionary layers reaches a row vector, and allocates a new
\* row vector otherwise.
C16_ReuseIffOuterUnique ==
  [][RootValuesTaken =>
       /\ ReusedInPlace <=> (~batch.shared /\ ReachesRow(batch))
       /\ AllocatedFresh <=> ~(~batch.shared /\ ReachesRow(batch))]_vars

\* C16: getValues reuses a row vector in place exactly when the result
\* handle and every layer under it down to that row vector has no other
\* holder and each lazy layer is loaded; otherwise it allocates a new row
\* vector; the result is a row vector of its own either way.
C16_ReuseIffUniqueAtEveryLayer ==
  [][RootValuesTaken =>
       /\ ReusedInPlace <=> UniqueToRow(batch)
       /\ AllocatedFresh <=> ~UniqueToRow(batch)
       /\ batch'.enc = "ROW" /\ ~batch'.shared]_vars

\* A result handle of its own around a row that another holder keeps: the
\* call allocated a new row vector.
C16_SharedUnderWrapper ==
  /\ last.op = "next" /\ last.err = ""
  /\ \E i \in Events("tryReuseResult", "root", "result") : log[i].off = 2
  /\ Events("alloc", "root", "result") # {}
  /\ Events("mutate", "root", "result") = {}
  /\ batch.enc = "ROW"

\* The row vector the last call filled for struct r.
RowOf(r) == IF r = "root" THEN batch ELSE batch.children[3]

\* C17: for a non-empty row set the null bits of the row vector getValues
\* filled are, at each output row i, the struct's null bit of row rows[i]
\* (for b, the file's null bit of that row), and no bit is set at all for the
\* root, which has no null bitmap; this holds for every batch, whatever the
\* reused vector held before.
C17_NullBitsFollowRows ==
  (last.op = "next" /\ last.err = "") =>
    \A i \in DOMAIN log :
      (log[i].e = "getValues" /\ IsStruct(log[i].r) /\ log[i].rows # <<>>) =>
        /\ RowOf(log[i].r).enc = "ROW"
        /\ RowOf(log[i].r).size = Len(log[i].rows)
        /\ RowOf(log[i].r).nulls \subseteq 0..(Len(log[i].rows) - 1)
        /\ \A k \in 0..(Len(log[i].rows) - 1) :
             k \in RowOf(log[i].r).nulls
               <=> log[i].r = "b" /\ log[i].rows[k + 1] \in file.bNulls

\* A reused row vector for b, filled for the one row the filter of a left:
\* row 1, where b is null, is output row 0.
C17_NullOfSecondRowComesFirst ==
  /\ last.op = "next" /\ last.err = "" /\ last.n = 2
  /\ file.bNulls = {1}
  /\ \E i \in Events("getValues", "b", "b") : log[i].rows = <<1>>
  /\ \E i \in Events("mutate", "b", "b") : log[i].off = 0
  /\ batch.children[3].nulls = {0}
  /\ batch.nulls = {}

\* The lazy vectors the last next() bound: fields a and b of the result.
BoundLazily(ch) ==
  /\ batch.enc = "ROW" /\ batch.size > 0
  /\ batch.children[ch].enc = "LAZY"
  /\ Touched(IF ch = 2 THEN "a" ELSE "b") # {}

\* C18: a getValues call prepares the lazy path at most once, before it
\* binds its first lazy vector; it recomputes the reader's output rows then
\* exactly when their number differs from the number of requested rows, and
\* once a lazy vector is bound the reader's output rows are the requested
\* rows, which are the rows a later load decodes.
C18_OutputRowsSyncedOnce ==
  /\ Cardinality(Events("lazyPrepare", "root", "")) <= 1
  /\ \A i \in Events("lazyPrepare", "root", "") :
       /\ \A k \in Touched("a") \cup Touched("b") : i < k
       /\ Events("setOutputRows", "root", "") # {} <=> log[i].off # Len(log[i].rows)
       /\ \A k \in Events("setOutputRows", "root", "") : log[k].rows = log[i].rows
  /\ last.op = "next" /\ last.err = "" /\ (BoundLazily(2) \/ BoundLazily(3)) =>
       /\ Cardinality(Events("lazyPrepare", "root", "")) = 1
       /\ \E i \in Events("getValues", "root", "result") :
            rd["root"].outputRows = log[i].rows
       /\ Len(rd["root"].outputRows) = batch.size
  /\ last.op = "load" /\ last.err = "" =>
       \E i \in DOMAIN log :
         /\ log[i].e = "read" /\ log[i].r = batch.children[last.n].reader
         /\ log[i].rows = rd["root"].outputRows
         /\ Len(log[i].rows) = batch.size
         /\ batch.children[last.n].inner.size = batch.size

\* Two lazy fields bound by one call: one preparation, one recomputation.
C18_TwoLazyFieldsOneSync ==
  /\ last.op = "next" /\ last.err = "" /\ batch.size = 2
  /\ BoundLazily(2) /\ BoundLazily(3)
  /\ Cardinality(Events("lazyPrepare", "root", "")) = 1
  /\ Cardinality(Events("setOutputRows", "root", "")) = 1
  /\ rd["root"].outputRows = <<0, 1>>

RECURSIVE RowUnder(_)

\* The row vector under the loaded lazy and dictionary layers of v.
RowUnder(v) == IF v.enc = "ROW" THEN v ELSE RowUnder(v.inner)

\* What the field slot of channel ch - 1 holds when getValues reaches it: the
\* field of the reused row vector, or of the newly made one.
OldField(ch) ==
  IF UniqueToRow(batch) THEN RowUnder(batch).children[ch]
  ELSE fillRowVectorChildren("root")[ch]

SlotName(ch) == IF ch = 2 THEN "a" ELSE "b"

ResetInPlace(ch) == \E i \in DOMAIN log' :
  log'[i] = Ev("mutate", "root", SlotName(ch), 0, <<>>)

NewlyAllocated(ch) == \E i \in DOMAIN log' :
  log'[i] = Ev("alloc", "root", SlotName(ch), 0, <<>>)

\* The next() calls that took the lazy path for the field of channel ch - 1.
LazyPathTaken(ch) ==
  /\ last'.op = "next"
  /\ ResetInPlace(ch) \/ NewlyAllocated(ch)

\* C19: on the lazy path a field slot that holds a lazy vector nobody else
\* holds keeps that vector, reset to the new read with the new row count and
\* nothing loaded, and no vector is allocated; any other slot gets a newly
\* allocated lazy vector of rows.size() rows, and a lazy vector another holder
\* kept stays as it was, bound to the read it was made in.
C19_ResetOrReplace ==
  [][\A ch \in 2..3 :
       LazyPathTaken(ch) =>
         /\ batch'.children[ch].enc = "LAZY"
         /\ batch'.children[ch].size = batch'.size
         /\ ~batch'.children[ch].loaded
         /\ batch'.children[ch].epoch = rd'["root"].numReads
         /\ batch'.children[ch].reader = children_("root")[ch - 1]
         /\ IF OldField(ch).enc = "LAZY" /\ ~OldField(ch).shared
            THEN /\ ResetInPlace(ch) /\ ~NewlyAllocated(ch)
                 /\ batch'.children[ch] =
                      [OldField(ch) EXCEPT !.size = batch'.size,
                                           !.epoch = rd'["root"].numReads,
                                           !.loaded = FALSE, !.inner = NoVec]
            ELSE /\ NewlyAllocated(ch) /\ ~ResetInPlace(ch)
                 /\ ~batch'.children[ch].shared
                 /\ (OldField(ch).enc = "LAZY" /\ ~OldField(ch).loaded) =>
                      /\ [reader |-> OldField(ch).reader,
                          epoch |-> OldField(ch).epoch] \in detached'
                      /\ OldField(ch).epoch < rd'["root"].numReads]_vars

\* One call that reset the lazy vector of a in place and replaced the lazy
\* vector of b, which another holder kept from the batch before.
C19_OneResetOneReplaced ==
  /\ last.op = "next" /\ last.err = "" /\ rd["root"].numReads = 2
  /\ Events("mutate", "root", "a") # {} /\ Events("alloc", "root", "a") = {}
  /\ Events("alloc", "root", "b") # {} /\ Events("mutate", "root", "b") = {}
  /\ batch.children[2].enc = "LAZY" /\ batch.children[3].enc = "LAZY"
  /\ [reader |-> "b", epoch |-> 1] \in detached

PermittedKinds == {"isNull", "isNotNull"}

FilterKindCheck == "check: filter kind"

\* The rows of a row set whose null bit in the file equals isNull.
MatchingRows(rows, isNull) ==
  SelectSeq(rows, LAMBDA x : (x \in file.bNulls) <=> isNull)

\* C20: a read of the nested struct whose own filter is of another kind than
\* is-null and is-not-null fails on the kind check, and the struct advances,
\* reads and propagates nulls to none of its children; the check fails for no
\* other reason; with a permitted kind the active rows after the filter are
\* exactly the rows of the read whose null bit matches the kind, and those are
\* the rows the child is read with.
C20_StructFilterKinds ==
  /\ last.err = FilterKindCheck => cfg.bKind \notin PermittedKinds \cup {"none"}
  /\ \A j \in Events("read", "b", "") :
       /\ cfg.bKind \notin PermittedKinds \cup {"none"} =>
            /\ last.err = FilterKindCheck
            /\ Events("active", "b", "filter") = {}
            /\ Events("advance", "b", "c") = {}
            /\ Events("read", "c", "") = {}
            /\ Events("addParentNulls", "b", "c") = {}
            /\ rd["c"].numReads = 0 /\ rd["c"].vals = <<>>
       /\ cfg.bKind \in PermittedKinds =>
            /\ last.err = ""
            /\ \E i \in Events("active", "b", "filter") :
                 /\ j < i
                 /\ log[i].rows = MatchingRows(log[j].rows, cfg.bKind = "isNull")
                 /\ \A k \in Events("read", "c", "") :
                      i < k /\ log[k].rows = log[i].rows
                 /\ log[i].rows = <<>> => Events("read", "c", "") = {}

\* The scan has a filter of another kind on b: the first read of b failed
\* after a had been read, and c was never reached.
C20_OtherKindFails ==
  /\ cfg.bKind = "other"
  /\ last.op = "next" /\ last.err = FilterKindCheck
  /\ WasRead("a") /\ WasRead("b") /\ ~WasRead("c")

\* The row groups an event of the last call recorded.
GroupsAt(i) == Range(log'[i].rows)

\* C21: filterRowGroups enters the struct, then each reader below it, exactly
\* once and in order; every reader gets the result as the one before it left
\* it; no row group marked before the call, or by an earlier reader, is
\* unmarked when a later one returns; the caller's result after the call
\* contains the result from before the call.
C21_FilterRowGroupsAdditive ==
  [][last'.op = "filterRowGroups" =>
       /\ rowGroups \subseteq rowGroups'
       /\ Len(log') = 2 * Cardinality(Readers)
       /\ <<log'[1].r, log'[2].r, log'[4].r, log'[5].r>> = <<"root", "a", "b", "c">>
       /\ \A r \in Readers :
            Cardinality({i \in DOMAIN log' :
                           log'[i].e = "filterRowGroups" /\ log'[i].r = r}) = 1
       /\ GroupsAt(1) = rowGroups
       /\ GroupsAt(Len(log')) = rowGroups'
       /\ \A i \in 1..(Len(log') - 1) :
            /\ GroupsAt(i) \subseteq GroupsAt(i + 1)
            /\ (log'[i].e = "return" /\ log'[i + 1].e = "filterRowGroups") =>
                 GroupsAt(i) = GroupsAt(i + 1)]_vars

\* A result that marked row group 1 before the call; the filter of a added
\* row group 0 and the filter of c, under the nested struct, the last one.
C21_ThreeContributions ==
  /\ last.op = "filterRowGroups"
  /\ log[1] = Ev("filterRowGroups", "root", "", 0, <<1>>)
  /\ \E i \in DOMAIN log : log[i] = Ev("return", "a", "filterRowGroups", 0, <<0, 1>>)
  /\ \E i \in DOMAIN log :
       log[i] = Ev("return", "c", "filterRowGroups", 0, AscSeq({0, 1, MaxRowGroups - 1}))
  /\ rowGroups = {0, 1, MaxRowGroups - 1}

\* The rows 0, 1, ..., n - 1.
Iota(n) == [i \in 1..n |-> i - 1]

\* C22: every next(numValues) on a reader with children reads the rows
\* 0 .. numValues - 1, whatever sizes the calls before had, so the dense-row
\* check of the mutation handling never fails; the read works with a mutation
\* exactly when this call was given deleted rows, and the rows it keeps are
\* those this call's deleted rows leave.
C22_DenseRowsCurrentMutation ==
  last.op = "next" =>
    /\ log[1].e = "next" /\ log[1].off = last.n
    /\ \E i \in Events("read", "root", "") : log[i].rows = Iota(last.n)
    /\ rd["root"].rows_ = Iota(last.n)
    /\ last.err # "dcheck: dense row set"
    /\ rd["root"].hasMutation <=> log[1].c = "deleted"
    /\ log[1].c = "deleted" =>
         \E i \in Events("active", "root", "mutation") :
           Range(log[i].rows) = (0..(last.n - 1)) \ Range(log[1].rows)
    /\ log[1].c # "deleted" =>
         /\ Events("active", "root", "mutation") = {}
         /\ (last.err = "" /\ ~hasFilter(cfg, "root")) => batch.size = last.n

\* A batch of one row without a mutation, right after a batch of three rows.
C22_ShrunkAfterThree ==
  /\ last.op = "next" /\ last.err = "" /\ last.n = 1
  /\ rd["root"].numReads = 2
  /\ rd["root"].readOffset = 4
  /\ rd["root"].rows_ = <<0>>
  /\ log[1].c = "none"
  /\ batch.size = 1

\* The size of the batch the call recorded in log' has to give: numValues
\* minus the deleted rows below numValues.
SizeAfterDeletes ==
  last'.n - Cardinality({x \in Range(log'[1].rows) : x < last'.n /\ log'[1].c = "deleted"})

AllConstant == \A i \in DOMAIN cfg.specs : cfg.specs[i].isConstant

\* C23: next on a reader without child readers resizes the result to
\* numValues minus the deleted rows below numValues, sets the field of every
\* child spec to the spec's constant at that size, fails when a child spec is
\* not constant, and reads nothing: no reader's state, readOffset included,
\* changes.
C23_NoReaders ==
  [][(last'.op = "next" /\ noChildReaders(cfg)) =>
       /\ rd' = rd
       /\ \A i \in DOMAIN log' : log'[i].e \notin {"read", "advance", "getValues", "skip"}
       /\ batch'.enc = "ROW"
       /\ batch'.size = SizeAfterDeletes
       /\ last'.err = "" <=> AllConstant
       /\ ~AllConstant => last'.err = "check: child spec is constant"
       /\ AllConstant =>
            \A i \in DOMAIN cfg.specs :
              /\ batch'.children[cfg.specs[i].channel + 1].enc = "CONSTANT"
              /\ batch'.children[cfg.specs[i].channel + 1].size = SizeAfterDeletes
              /\ batch'.children[cfg.specs[i].channel + 1].value = constantOf(cfg.specs[i])]_vars

\* Three rows asked for, the second deleted and also one past the three:
\* two rows, both constant columns of size two.
C23_TwoOfThree ==
  /\ noChildReaders(cfg) /\ Len(cfg.specs) = 2
  /\ last.op = "next" /\ last.err = "" /\ last.n = 3
  /\ log[1].c = "deleted" /\ log[1].rows = <<1, 3>>
  /\ batch.size = 2
  /\ batch.children[1] = ConstantVector(2, <<"K", 0>>)
  /\ batch.children[2] = ConstantVector(2, <<"P", 0>>)
  /\ rd["root"].readOffset = 0

\* The factories that return a sink, or raise, for the path of the last create.
Takes(factory) ==
  \/ factory \in {"localWriteFileSink", "localFileSink"} /\ hasFilePrefix(sink.filePath)
  \/ factory = "callerSink" /\ sink.filePath # <<>> /\ sink.filePath[1] = "/"

SinkKind(factory) ==
  CASE factory = "localWriteFileSink" -> "WriteFileDataSink"
    [] factory = "localFileSink" -> "LocalFileSink"
    [] OTHER -> "CallerSink"

\* C24: create calls the registered factories in registration order up to
\* and including the first that returns a sink, and returns that sink; when
\* every registered factory returned null it makes a LocalFileSink on the
\* path as given; with a null metrics log it fails and calls no factory.
C24_FirstFactoryWins ==
  sink.op = "create" =>
    /\ ~sink.metricsLog =>
         /\ sink.err = "ensure: metricsLog is not null"
         /\ sink.tried = <<>>
         /\ sink.made = NoneMade
    /\ sink.metricsLog =>
         /\ Len(sink.tried) <= Len(sink.factories)
         /\ sink.tried = SubSeq(sink.factories, 1, Len(sink.tried))
         /\ \A i \in 1..(Len(sink.tried) - 1) : ~Takes(sink.tried[i])
         /\ IF \E i \in DOMAIN sink.factories : Takes(sink.factories[i])
            THEN /\ sink.tried # <<>>
                 /\ Takes(Last(sink.tried))
                 /\ sink.err = "" =>
                      /\ sink.made.kind = SinkKind(Last(sink.tried))
                      /\ sink.made.name =
                           IF Last(sink.tried) = "callerSink" THEN sink.filePath
                           ELSE SubSeq(sink.filePath, 6, Len(sink.filePath))
            ELSE /\ sink.tried = sink.factories
                 /\ sink.err = "" => sink.made = [kind |-> "LocalFileSink",
                                                 name |-> sink.filePath]

\* Three factories; the first returned null for the path, the second made
\* the sink, the third was not called.
C24_SecondOfThree ==
  /\ sink.op = "create" /\ sink.err = ""
  /\ Len(sink.factories) = 3
  /\ sink.factories[3] = "localFileSink"
  /\ sink.tried = <<"callerSink", "localWriteFileSink">>
  /\ sink.made = [kind |-> "WriteFileDataSink", name |-> <<"/", "t">>]

RECURSIVE Flat(_, _)
\* The first n buffers, one after the other.
Flat(buffers, n) == IF n = 0 THEN <<>> ELSE Flat(buffers, n - 1) \o buffers[n]

\* What the file holds when this write got through offset bytes of buffer
\* index.
FileAt(s) ==
  IF s.index = 0 THEN s.before
  ELSE s.before \o Flat(s.buffers, s.index - 1)
                \o SubSeq(s.buffers[s.index], 1, s.offset)

WriteSafe ==
  sink.op \in {"write", "written", "failed"} =>
    /\ sink.index \in 0..Len(sink.buffers)
    /\ sink.index = 0 <=> sink.buffers = <<>>
    /\ sink.index > 0 => sink.offset <= Len(sink.buffers[sink.index])
    /\ sink.content = FileAt(sink)
    /\ sink.op = "written" =>
         sink.content = sink.before \o Flat(sink.buffers, Len(sink.buffers))
    /\ sink.request # NoRequest =>
         /\ sink.request.offset + sink.request.count =
              Len(sink.buffers[sink.request.index])
         /\ sink.request.count > 0
         /\ sink.request.bytesWritten <= 0 <=> sink.op = "failed"

WriteAdvances ==
  sink.op = "write" /\ sink'.op = "write" /\ sink'.request # sink.request =>
    /\ sink'.index = sink.index
    /\ sink'.offset > sink.offset
    /\ sink'.request.offset = sink.offset

\* C25: while and after write, the file holds what it held before the call,
\* then the buffers already finished, then the first offset bytes of the
\* current buffer, and offset never exceeds the buffer's size; every ::write
\* call asks for exactly the unwritten rest of the buffer; a call that
\* returns -1 or 0 ends write with an error; every other call advances
\* offset by at least one; and a write that was begun ends, with every byte
\* of every buffer in the file or with an error.
C25_WriteCompletes ==
  /\ []WriteSafe
  /\ [][WriteAdvances]_vars
  /\ (sink.op = "write") ~> (sink.op \in {"written", "failed"})

\* Two buffers of two bytes were written; the last call wrote the one byte
\* that an earlier partial write of the second buffer had left.
C25_PartialThenRest ==
  /\ sink.op = "written"
  /\ Len(sink.buffers) = 2
  /\ Len(sink.buffers[1]) = 2 /\ Len(sink.buffers[2]) = 2
  /\ sink.request = [index |-> 2, offset |-> 1, count |-> 1, bytesWritten |-> 1]
  /\ Len(sink.content) = Len(sink.before) + 4

RECURSIVE Total(_, _, _)
\* The sum, in the integers, of the non-null values that the entries es
\* counted in added give for key.
Total(added, key, es) ==
  IF es = {} THEN 0
  ELSE LET e == CHOOSE x \in es : TRUE
       IN (IF ~e.keyNull /\ e.key = key /\ ~e.valueNull
           THEN e.value * added[e] ELSE 0) + Total(added, key, es \ {e})

KeysSeen(added) == {e.key : e \in {x \in Entries : ~x.keyNull /\ added[x] > 0}}

\* C26: as long as no addition raised, every group's accumulator has
\* exactly the non-null keys of the non-null maps it was given, each with
\* the sum of its non-null values (a key that only had null values has 0),
\* and a group is null exactly when it was given no non-null map; two groups
\* that were given the same entries hold the same sums, whatever the order;
\* no sum ever leaves the range of int8_t, and an addition raises exactly
\* when its result would.
C26_MapUnionSum ==
  /\ \A g \in Groups :
       /\ \A k \in DOMAIN agg.groups[g].sums :
            agg.groups[g].sums[k] \in MinValue..MaxValue
       /\ agg.err = "" =>
            /\ DOMAIN agg.groups[g].sums = KeysSeen(agg.groups[g].added)
            /\ \A k \in DOMAIN agg.groups[g].sums :
                 agg.groups[g].sums[k] = Total(agg.groups[g].added, k, Entries)
            /\ agg.groups[g].isNull <=> agg.groups[g].first = 0
  /\ agg.err = "" =>
       \A g1, g2 \in Groups :
         agg.groups[g1].added = agg.groups[g2].added =>
           agg.groups[g1].sums = agg.groups[g2].sums
  /\ agg.err # "" =>
       /\ agg.failed.a \in MinValue..MaxValue
       /\ agg.failed.b \in MinValue..MaxValue
       /\ agg.failed.a + agg.failed.b \notin MinValue..MaxValue

\* Both groups were given the first two maps, in opposite orders: x has
\* 100 - 100, y only a null value, the null key left no entry.
C26_SameMapsOtherOrder ==
  /\ agg.err = ""
  /\ agg.groups["g1"].first = 1 /\ agg.groups["g2"].first = 2
  /\ agg.groups["g1"].added = agg.groups["g2"].added
  /\ agg.groups["g1"].added[NullK(100)] = 1
  /\ DOMAIN agg.groups["g1"].sums = {"x", "y"}
  /\ agg.groups["g1"].sums["x"] = 0 /\ agg.groups["g1"].sums["y"] = 0

====
